---------------------------- MODULE Spec2Model ----------------------------
(***************************************************************************)
(* A model of the wiki markup renderer (class WikiRenderer) and of the     *)
(* part of WikiStorage it calls.  Text is a sequence of UTF-16 code units; *)
(* an ASCII unit is the one-character string, a Hangul syllable is the     *)
(* string "U+XXXX" of its code point.  Every pass of render is one action; *)
(* the regular expressions of the source are programs for the backtracking *)
(* matcher Exec below.                                                     *)
(***************************************************************************)
EXTENDS Integers, Sequences, FiniteSets, TLC

\* ------------------------------------------------------------------ text

\* The code units of an ASCII string literal.
Chars(str) == [i \in 1..Len(str) |-> SubSeq(str, i, i)]

Range(f) == {f[i] : i \in DOMAIN f}

MinOf(S) == CHOOSE x \in S : \A y \in S : x <= y

MaxOf(S) == CHOOSE x \in S : \A y \in S : x >= y

LowerSeq == Chars("abcdefghijklmnopqrstuvwxyz")

UpperSeq == Chars("ABCDEFGHIJKLMNOPQRSTUVWXYZ")

Digits == Range(Chars("0123456789"))

Letters == Range(LowerSeq) \cup Range(UpperSeq)

\* \w of a JavaScript regular expression without the u flag.
WordChars == Letters \cup Digits \cup {"_"}

\* \s, restricted to the white space the inputs use.
SpaceChars == {" ", "\t", "\n", "\r"}

\* What . does not match, and where ^ and $ match under the m flag.
LineTerminators == {"\n", "\r"}

\* A unit of the range [\uAC00-\uD7A3] (written [가-힣] in the source).
IsHangul(c) ==
    /\ Len(c) = 6
    /\ LET h == SubSeq(c, 3, 3)
           l == SubSeq(c, 4, 4)
       IN \/ h \in {"B", "C"}
          \/ h = "A" /\ l \in {"C", "D", "E", "F"}
          \/ h = "D" /\ l \in {"0", "1", "2", "3", "4", "5", "6", "7"}

\* String.prototype.toLowerCase on one code unit.
LowerChar(c) ==
    IF c \in Range(UpperSeq)
    THEN LowerSeq[CHOOSE i \in 1..Len(UpperSeq) : UpperSeq[i] = c]
    ELSE c

toLowerCase(s) == [i \in 1..Len(s) |-> LowerChar(s[i])]

\* String.prototype.trim: the white space at both ends removed.
trim(s) ==
    LET ns == {i \in 1..Len(s) : s[i] \notin SpaceChars}
    IN IF ns = {} THEN <<>> ELSE SubSeq(s, MinOf(ns), MaxOf(ns))

startsWith(s, p) == Len(s) >= Len(p) /\ SubSeq(s, 1, Len(p)) = p

\* s.includes(p)
includes(s, p) ==
    \E i \in 1..(Len(s) + 1 - Len(p)) : SubSeq(s, i, i + Len(p) - 1) = p

RECURSIVE SplitFrom(_, _, _)
SplitFrom(s, from, sep) ==
    LET at == {i \in from..Len(s) : s[i] = sep}
    IN IF at = {} THEN <<SubSeq(s, from, Len(s))>>
       ELSE <<SubSeq(s, from, MinOf(at) - 1)>> \o SplitFrom(s, MinOf(at) + 1, sep)

\* s.split(sep) for a one-unit separator.
split(s, sep) == SplitFrom(s, 1, sep)

RECURSIVE JoinFrom(_, _, _)
JoinFrom(parts, k, sep) ==
    IF k > Len(parts) THEN <<>>
    ELSE IF k = Len(parts) THEN parts[k]
    ELSE parts[k] \o sep \o JoinFrom(parts, k + 1, sep)

\* parts.join(sep)
join(parts, sep) == JoinFrom(parts, 1, sep)

\* ------------------------------------------------- regular expressions

\* A character class: the set, or its complement.
Cls(set) == [set |-> set, neg |-> FALSE, hangul |-> FALSE]

NotCls(set) == [set |-> set, neg |-> TRUE, hangul |-> FALSE]

\* The class [가-힣...]: the Hangul syllables and the units of set.
HangulCls(set) == [set |-> set, neg |-> FALSE, hangul |-> TRUE]

InCls(c, cls) == ((c \in cls.set) \/ (cls.hangul /\ IsHangul(c))) # cls.neg

\* The class . of a regular expression.
AnyChar == NotCls(LineTerminators)

\* cls{min,max}, greedy or lazy; max < 0 is "no upper limit".
Rep(cls, min, max, greedy) ==
    [op |-> "set", cls |-> cls, min |-> min, max |-> max, greedy |-> greedy]

Lit(c) == Rep(Cls({c}), 1, 1, TRUE)

\* The literal text str.
LitSeq(str) == [i \in 1..Len(str) |-> Lit(SubSeq(str, i, i))]

Plus(cls) == Rep(cls, 1, 0 - 1, TRUE)

Star(cls) == Rep(cls, 0, 0 - 1, TRUE)

Open(g) == [op |-> "open", g |-> g]

Close(g) == [op |-> "close", g |-> g]

BackRef(g) == [op |-> "backref", g |-> g]

Bol == [op |-> "bol"]

Eol == [op |-> "eol"]

\* ^ and $ without the m flag.
Bos == [op |-> "bos"]

Eos == [op |-> "eos"]

\* (?!cls)
NotAhead(cls) == [op |-> "nla", cls |-> cls]

\* Try the program from x, and from y when that fails.
Split(x, y) == [op |-> "split", x |-> x, y |-> y]

Jmp(x) == [op |-> "jmp", x |-> x]

NoCaps == << <<0, 0>>, <<0, 0>> >>

NoMatch == [ok |-> FALSE, end |-> 0, caps |-> NoCaps]

\* The first position at or after i whose unit is not in cls (Len(s) + 1 if none).
RECURSIVE RunEnd(_, _, _)
RunEnd(s, i, cls) ==
    LET hi == IF i + 15 < Len(s) THEN i + 15 ELSE Len(s)
        out == {p \in i..hi : ~InCls(s[p], cls)}
    IN IF out # {} THEN MinOf(out)
       ELSE IF hi >= Len(s) THEN Len(s) + 1
       ELSE RunEnd(s, hi + 1, cls)

\* The shorter of a run of units and the upper limit of a repetition.
AtMost(run, max) == IF max < 0 \/ run < max THEN run ELSE max

\* The match r, or alt when r is none: the alternative a backtracking engine
\* tries next.
OrElse(r, alt) == IF r.ok THEN r ELSE alt

RECURSIVE Exec(_, _, _, _, _), ExecRep(_, _, _, _, _, _, _, _)

\* A repetition of lo to hi units at position i: the longest (greedy) or the
\* shortest (lazy) after which the rest of the program matches.
ExecRep(prog, pc, s, i, caps, lo, hi, greedy) ==
    LET res == [n \in lo..hi |-> Exec(prog, pc + 1, s, i + n, caps)]
        cand == {n \in lo..hi : res[n].ok}
    IN IF cand = {} THEN NoMatch
       ELSE IF greedy THEN res[MaxOf(cand)] ELSE res[MinOf(cand)]

\* The backtracking matcher: the match of prog[pc..] at position i of s, the
\* first one in the order a backtracking engine tries them.
Exec(prog, pc, s, i, caps) ==
    IF pc > Len(prog) THEN [ok |-> TRUE, end |-> i, caps |-> caps]
    ELSE
    LET ins == prog[pc] IN
    CASE ins.op = "set" ->
           IF ins.min = 1 /\ ins.max = 1
           THEN IF i <= Len(s) /\ InCls(s[i], ins.cls)
                THEN Exec(prog, pc + 1, s, i + 1, caps)
                ELSE NoMatch
           ELSE ExecRep(prog, pc, s, i, caps, ins.min,
                        AtMost(RunEnd(s, i, ins.cls) - i, ins.max), ins.greedy)
      [] ins.op = "open" ->
           Exec(prog, pc + 1, s, i, [caps EXCEPT ![ins.g] = <<i, i>>])
      [] ins.op = "close" ->
           Exec(prog, pc + 1, s, i, [caps EXCEPT ![ins.g] = <<caps[ins.g][1], i>>])
      [] ins.op = "backref" ->
           LET t == SubSeq(s, caps[ins.g][1], caps[ins.g][2] - 1)
           IN IF i + Len(t) - 1 <= Len(s) /\ SubSeq(s, i, i + Len(t) - 1) = t
              THEN Exec(prog, pc + 1, s, i + Len(t), caps)
              ELSE NoMatch
      [] ins.op = "bol" ->
           IF i = 1 \/ s[i - 1] \in LineTerminators
           THEN Exec(prog, pc + 1, s, i, caps) ELSE NoMatch
      [] ins.op = "eol" ->
           IF i = Len(s) + 1 \/ s[i] \in LineTerminators
           THEN Exec(prog, pc + 1, s, i, caps) ELSE NoMatch
      [] ins.op = "bos" ->
           IF i = 1 THEN Exec(prog, pc + 1, s, i, caps) ELSE NoMatch
      [] ins.op = "eos" ->
           IF i = Len(s) + 1 THEN Exec(prog, pc + 1, s, i, caps) ELSE NoMatch
      [] ins.op = "nla" ->
           IF i <= Len(s) /\ InCls(s[i], ins.cls)
           THEN NoMatch ELSE Exec(prog, pc + 1, s, i, caps)
      [] ins.op = "split" ->
           OrElse(Exec(prog, ins.x, s, i, caps), Exec(prog, ins.y, s, i, caps))
      [] ins.op = "jmp" -> Exec(prog, ins.x, s, i, caps)

\* Whether a match of prog can start with the unit at p at all.
CanStart(prog, s, p) ==
    LET f == prog[1]
    IN (f.op = "set" /\ f.min >= 1) => InCls(s[p], f.cls)

\* The positions of s at which prog matches.
MatchStarts(prog, s) ==
    {p \in 1..Len(s) : CanStart(prog, s, p) /\ Exec(prog, 1, s, p, NoCaps).ok}

\* The matches a global regular expression finds from position from on:
\* leftmost first, each search resuming where the last match ended.
RECURSIVE MatchesFrom(_, _, _, _), MatchesAfter(_, _, _, _, _)

\* The match m found at p, and the matches after it.
MatchesAfter(prog, s, starts, p, m) ==
    <<[start |-> p, end |-> m.end, caps |-> m.caps]>>
    \o MatchesFrom(prog, s, starts, m.end)

MatchesFrom(prog, s, starts, from) ==
    IF \A p \in starts : p < from THEN <<>>
    ELSE MatchesAfter(prog, s, starts, MinOf({p \in starts : p >= from}),
                      Exec(prog, 1, s, MinOf({p \in starts : p >= from}), NoCaps))

Matches(prog, s) == MatchesFrom(prog, s, MatchStarts(prog, s), 1)

\* The match at the least of the positions starts, or none.
FirstAmong(prog, s, starts) ==
    IF starts = {} THEN NoMatch ELSE Exec(prog, 1, s, MinOf(starts), NoCaps)

\* regex.exec / line.match without the g flag: the leftmost match, or none.
FirstMatch(prog, s) == FirstAmong(prog, s, MatchStarts(prog, s))

\* Capture group g of match m (the empty text when it took no part).
Group(s, m, g) == SubSeq(s, m.caps[g][1], m.caps[g][2] - 1)

\* The whole matched text ($& of a replacement).
Whole(s, m) == SubSeq(s, m.start, m.end - 1)

RECURSIVE Splice(_, _, _, _, _)
Splice(s, ms, reps, k, from) ==
    IF k > Len(ms) THEN SubSeq(s, from, Len(s))
    ELSE SubSeq(s, from, ms[k].start - 1) \o reps[k]
         \o Splice(s, ms, reps, k + 1, ms[k].end)

\* The text s with match k of ms replaced by reps[k].
ReplaceAll(s, ms, reps) == IF Len(ms) = 0 THEN s ELSE Splice(s, ms, reps, 1, 1)

\* The text s with the k-th match m of ms replaced by By(m, k).
ReplaceMatches(s, ms, By(_, _)) ==
    ReplaceAll(s, ms, [k \in 1..Len(ms) |-> By(ms[k], k)])

\* s.replace(regex, by) with the g flag: By(m, k) replaces m, the k-th match.
Replace(s, regex, By(_, _)) == ReplaceMatches(s, Matches(regex, s), By)

\* ------------------------------------------------------- the environment

\* window.app is set by WikiApp.setupSearch before any page is rendered.
windowApp == TRUE

\* window.WikiStorage: the storage class is loaded with the page.
windowWikiStorage == TRUE

Base64Url == Chars("ABCDEFGHIJKLMNOPQRSTUVWXYZabcdefghijklmnopqrstuvwxyz0123456789-_")

HexDigits == Chars("0123456789ABCDEF")

\* The grave accent, for which a string literal has no notation.
Backtick == "U+0060"

AsciiTable ==
    Chars(" !\"#$%&'()*+,-./0123456789:;<=>?@ABCDEFGHIJKLMNOPQRSTUVWXYZ[\\]^_")
    \o <<Backtick>> \o Chars("abcdefghijklmnopqrstuvwxyz{|}~")

HexValue(h) == (CHOOSE i \in 1..16 : HexDigits[i] = h) - 1

\* The code of a unit: of the ASCII unit itself, or the XXXX of "U+XXXX".
CodeOf(c) ==
    IF Len(c) = 6
    THEN HexValue(SubSeq(c, 3, 3)) * 4096 + HexValue(SubSeq(c, 4, 4)) * 256
         + HexValue(SubSeq(c, 5, 5)) * 16 + HexValue(SubSeq(c, 6, 6))
    ELSE IF c = "\n" THEN 10 ELSE IF c = "\t" THEN 9
    ELSE 31 + (CHOOSE i \in 1..Len(AsciiTable) : AsciiTable[i] = c)

\* The concatenation of parts[lo..hi].
RECURSIVE FlattenRange(_, _, _)
FlattenRange(parts, lo, hi) ==
    IF lo > hi THEN <<>>
    ELSE IF lo = hi THEN parts[lo]
    ELSE LET mid == (lo + hi) \div 2
         IN FlattenRange(parts, lo, mid) \o FlattenRange(parts, mid + 1, hi)

Flatten(parts, k) == FlattenRange(parts, k, Len(parts))

\* WikiApp.pageNameToPunycode, the link encoder: a reversible encoding of the
\* page title into URL-safe units, two units of the Base64URL alphabet per
\* unit of the title.
pageNameToPunycode(title) ==
    Flatten([k \in 1..Len(title) |->
        LET n == CodeOf(title[k])
        IN IF n < 128
           THEN <<Base64Url[(n \div 16) + 1], Base64Url[(n % 16) + 1]>>
           ELSE <<"_", Base64Url[(n \div 4096) + 1], Base64Url[((n \div 64) % 64) + 1],
                  Base64Url[(n % 64) + 1]>>], 1)

PercentByte(n) == <<"%", HexDigits[(n \div 16) + 1], HexDigits[(n % 16) + 1]>>

\* The value thrown by an operation that raises instead of returning.
Thrown == "(exception)"

Raises(result) == Thrown \in Range(result)

\* encodeURIComponent: the unreserved units unchanged, any other as the
\* percent escapes of its UTF-8 bytes; a lone surrogate is a URIError.
encodeURIComponent(str) ==
    Flatten([k \in 1..Len(str) |->
        LET n == CodeOf(str[k])
        IN IF str[k] \in WordChars \cup Range(Chars("-.!~*'()")) THEN <<str[k]>>
           ELSE IF n < 128 THEN PercentByte(n)
           ELSE IF n >= 55296 /\ n <= 57343 THEN <<Thrown>>
           ELSE PercentByte(224 + (n \div 4096))
                \o PercentByte(128 + ((n \div 64) % 64))
                \o PercentByte(128 + (n % 64))], 1)

\* The href of an internal link to page.
encodedUrl(page) ==
    IF windowApp THEN pageNameToPunycode(page) ELSE encodeURIComponent(page)

\* null
Null == [null |-> TRUE]

\* image.data: a property of null cannot be read (a TypeError).
DataOf(image) == IF image = Null THEN <<Thrown>> ELSE image.data

\* The data URL stored for an uploaded image.
ImageData(name) == Chars("data:image/png;base64,iVBORw0KGgo=")

\* WikiStorage.getImage: the stored image, or null when there is none.
getImage(images, name) ==
    IF name \in images THEN [name |-> name, data |-> ImageData(name)] ELSE Null

\* --------------------------------------------------------------- helpers

RECURSIVE ToDigits(_)
ToDigits(n) ==
    IF n < 10 THEN <<Chars("0123456789")[n + 1]>>
    ELSE ToDigits(n \div 10) \o <<Chars("0123456789")[(n % 10) + 1]>>

\* escapeHtml: the text serialised as the content of an element.
escapeHtml(text) ==
    Flatten([k \in 1..Len(text) |->
        CASE text[k] = "&" -> Chars("&amp;")
          [] text[k] = "<" -> Chars("&lt;")
          [] text[k] = ">" -> Chars("&gt;")
          [] OTHER -> <<text[k]>>], 1)

WhitespaceRun == <<Plus(Cls(SpaceChars))>>

\* s.replace(/\s+/g, by)
ReplaceWhitespaceRuns(s, by) ==
    Replace(s, WhitespaceRun, LAMBDA m, k : by)

\* generateId without toLowerCase.
generateIdKeepCase(text) ==
    LET kept == SelectSeq(text, LAMBDA c : c \in WordChars \cup SpaceChars \cup {"-"})
    IN trim(ReplaceWhitespaceRuns(kept, <<"-">>))

\* generateId: lower case, the units outside [\w\s-] removed, each run of
\* white space made one hyphen, trimmed.
generateId(text) ==
    LET kept == SelectSeq(toLowerCase(text),
                    LAMBDA c : c \in WordChars \cup SpaceChars \cup {"-"})
    IN trim(ReplaceWhitespaceRuns(kept, <<"-">>))

\* ------------------------------------------------------------ the passes

\* /^(={1,5})\s*(.+?)\s*\1\s*$/gm
wikiHeaderRegex ==
    <<Bol, Open(1), Rep(Cls({"="}), 1, 5, TRUE), Close(1), Star(Cls(SpaceChars)),
      Open(2), Rep(AnyChar, 1, 0 - 1, FALSE), Close(2), Star(Cls(SpaceChars)),
      BackRef(1), Star(Cls(SpaceChars)), Eol>>

\* /^(#{1,6})\s+(.+)$/gm
markdownHeaderRegex ==
    <<Bol, Open(1), Rep(Cls({"#"}), 1, 6, TRUE), Close(1), Plus(Cls(SpaceChars)),
      Open(2), Plus(AnyChar), Close(2), Eol>>

\* <h${level} id="${id}">${text.trim()}</h${level}>
HeadingHtml(marks, text) ==
    Chars("<h") \o ToDigits(Len(marks)) \o Chars(" id=\"") \o generateId(text)
    \o Chars("\">") \o trim(text) \o Chars("</h") \o ToDigits(Len(marks)) \o Chars(">")

renderWikiHeaders(content) ==
    Replace(content, wikiHeaderRegex, LAMBDA m, k :
        HeadingHtml(Group(content, m, 1), Group(content, m, 2)))

renderHeaders(content) ==
    Replace(content, markdownHeaderRegex, LAMBDA m, k :
        HeadingHtml(Group(content, m, 1), Group(content, m, 2)))

CategoryPrefix == <<"U+BD84", "U+B958">> \o Chars(":")

\* /\[\[분류:([^\]]+)\]\]/g
categoryRegex ==
    LitSeq("[[") \o <<Lit("U+BD84"), Lit("U+B958"), Lit(":"), Open(1),
                      Plus(NotCls({"]"})), Close(1)>> \o LitSeq("]]")

renderCategories(content) ==
    Replace(content, categoryRegex, LAMBDA m, k :
        LET categoryName == trim(Group(content, m, 1))
            categoryPageTitle == CategoryPrefix \o categoryName
        IN Chars("<div class=\"wiki-category category-link\" data-category=\"")
           \o escapeHtml(categoryPageTitle)
           \o Chars("\"><span class=\"category-label\">") \o CategoryPrefix
           \o Chars("</span> <span class=\"category-name\">")
           \o escapeHtml(categoryName) \o Chars("</span></div>"))

\* [가-힣a-zA-Z0-9_]
TagWord == HangulCls(Letters \cup Digits \cup {"_"})

\* [가-힣a-zA-Z0-9_\s]
TagInner == HangulCls(Letters \cup Digits \cup {"_"} \cup SpaceChars)

\* /#([가-힣a-zA-Z0-9_][가-힣a-zA-Z0-9_\s]*[가-힣a-zA-Z0-9_]|[가-힣a-zA-Z0-9_]+)/g
tagRegex ==
    <<Lit("#"), Open(1), Split(4, 8),
      Rep(TagWord, 1, 1, TRUE), Star(TagInner), Rep(TagWord, 1, 1, TRUE), Jmp(9),
      Plus(TagWord), Close(1)>>

TagHtml(normalizedTag) ==
    Chars("<span class=\"wiki-tag\" data-tag=\"") \o escapeHtml(normalizedTag)
    \o Chars("\" onclick=\"app.showTaggedPages('") \o escapeHtml(normalizedTag)
    \o Chars("')\">#") \o normalizedTag \o Chars("</span>")

renderTags(content) ==
    Replace(content, tagRegex, LAMBDA m, k :
        TagHtml(ReplaceWhitespaceRuns(trim(Group(content, m, 1)), <<" ">>)))

\* toc.push({ level, text, id: this.generateId(text), position: index })
TocEntry(level, text, index) ==
    [level |-> level, text |-> text, id |-> generateId(text), position |-> index]

\* The entry of a line whose header match is m, none for a line without one.
TocEntryOf(line, index, m) ==
    IF ~m.ok THEN <<>>
    ELSE <<TocEntry(m.caps[1][2] - m.caps[1][1],
                    trim(SubSeq(line, m.caps[2][1], m.caps[2][2] - 1)), index)>>

\* line.match(/^(#{1,6})\s+(.+)$/), or line.match(/^(={1,5})\s*(.+?)\s*\1\s*$/)
\* for a line that is no Markdown header.
HeaderMatch(line) ==
    OrElse(FirstMatch(<<Bos, Open(1), Rep(Cls({"#"}), 1, 6, TRUE), Close(1),
                        Plus(Cls(SpaceChars)), Open(2), Plus(AnyChar), Close(2),
                        Eos>>, line),
           FirstMatch(<<Bos, Open(1), Rep(Cls({"="}), 1, 5, TRUE), Close(1),
                        Star(Cls(SpaceChars)), Open(2),
                        Rep(AnyChar, 1, 0 - 1, FALSE), Close(2),
                        Star(Cls(SpaceChars)), BackRef(1), Star(Cls(SpaceChars)),
                        Eos>>, line))

\* generateTOC: the header lines of content, in order.
generateTOC(content) ==
    LET lines == split(content, "\n")
    IN Flatten([k \in 1..Len(lines) |->
                   TocEntryOf(lines[k], k - 1, HeaderMatch(lines[k]))], 1)

\* '  '.repeat(n)
Indent(n) == [k \in 1..(2 * n) |-> " "]

\* The block that replaces a [목차] marker.
TocHtml(toc) ==
    IF Len(toc) = 0 THEN <<>>
    ELSE Chars("<div class=\"wiki-toc\"><h4>") \o <<"U+BAA9", "U+CC28">>
         \o Chars("</h4><ul>")
         \o Flatten([k \in 1..Len(toc) |->
                Indent(toc[k].level - 1) \o Chars("<li><a href=\"#") \o toc[k].id
                \o Chars("\">") \o toc[k].text \o Chars("</a></li>")], 1)
         \o Chars("</ul></div>")

\* /\[목차\]/g
tocMarkerRegex == <<Lit("["), Lit("U+BAA9"), Lit("U+CC28"), Lit("]")>>

renderTableOfContents(content) ==
    Replace(content, tocMarkerRegex, LAMBDA m, k : TocHtml(generateTOC(content)))

\* /([^\[\s]*)\[\*\s*([^\]]+)\]/g: a footnote that needs no text before it.
footnoteRegexBare ==
    <<Open(1), Star(NotCls({"["} \cup SpaceChars)), Close(1), Lit("["), Lit("*"),
      Star(Cls(SpaceChars)), Open(2), Plus(NotCls({"]"})), Close(2), Lit("]")>>

\* /([^\[\s]+)\[\*\s*([^\]]+)\]/g
footnoteRegex ==
    <<Open(1), Plus(NotCls({"["} \cup SpaceChars)), Close(1), Lit("["), Lit("*"),
      Star(Cls(SpaceChars)), Open(2), Plus(NotCls({"]"})), Close(2), Lit("]")>>

\* The footnotes with a footnoteCounter that is never incremented.
FootnotesOfUnnumbered(content) ==
    LET ms == Matches(<<Open(1), Plus(NotCls({"["} \cup SpaceChars)), Close(1), Lit("["),
                        Lit("*"), Star(Cls(SpaceChars)), Open(2), Plus(NotCls({"]"})),
                        Close(2), Lit("]")>>, content)
    IN [k \in 1..Len(ms) |->
          [id |-> Chars("footnote-1"), backrefId |-> Chars("backref-1"), number |-> 1,
           content |-> trim(Group(content, ms[k], 2))]]

\* The footnotes a render collects: footnoteCounter runs from 1.
FootnotesOf(content) ==
    LET ms == Matches(footnoteRegex, content)
    IN [k \in 1..Len(ms) |->
          [id |-> Chars("footnote-") \o ToDigits(k),
           backrefId |-> Chars("backref-") \o ToDigits(k),
           number |-> k,
           content |-> trim(Group(content, ms[k], 2))]]

FootnoteRefHtml(text, fn) ==
    text \o Chars("<sup><span id=\"") \o fn.backrefId
    \o Chars("\" class=\"footnote-ref\" data-footnote=\"") \o fn.id \o Chars("\">")
    \o ToDigits(fn.number) \o Chars("</span></sup>")

FootnoteItemHtml(fn) ==
    Chars("<li id=\"") \o fn.id
    \o Chars("\" class=\"footnote\">\n                    <span class=\"footnote-content\">")
    \o fn.content
    \o Chars("</span>\n                    <span class=\"footnote-backref\" data-backref=\"")
    \o fn.backrefId
    \o Chars("\" title=\"") \o <<"U+BCF8", "U+BB38", "U+C73C", "U+B85C">> \o Chars(" ")
    \o <<"U+B3CC", "U+C544", "U+AC00", "U+AE30">> \o Chars("\">") \o <<"U+2191">>
    \o Chars("</span>\n                </li>")

FootnotesSectionHtml(footnotes) ==
    Chars("<div class=\"footnotes-section\"><hr><h4>") \o <<"U+AC01", "U+C8FC">>
    \o Chars("</h4><ol class=\"footnotes-list\">")
    \o Flatten([k \in 1..Len(footnotes) |-> FootnoteItemHtml(footnotes[k])], 1)
    \o Chars("</ol></div>")

\* processedContent and the footnotes section, with footnotes or without.
WithFootnotesAlways(content, footnotes) ==
    Replace(content, footnoteRegex, LAMBDA m, k :
        FootnoteRefHtml(Group(content, m, 1), footnotes[k]))
    \o FootnotesSectionHtml(footnotes)

\* processedContent, and the footnotes section when there are footnotes.
WithFootnotes(content, footnotes) ==
    Replace(content, footnoteRegex, LAMBDA m, k :
        FootnoteRefHtml(Group(content, m, 1), footnotes[k]))
    \o (IF Len(footnotes) > 0 THEN FootnotesSectionHtml(footnotes) ELSE <<>>)

renderFootnotes(content) == WithFootnotes(content, FootnotesOf(content))

\* s.replace(/DD([^D]+)DD/g, '<tag>$1</tag>') for a delimiter of two units d.
DelimitedRegex(d) ==
    <<Lit(d), Lit(d), Open(1), Plus(NotCls({d})), Close(1), Lit(d), Lit(d)>>

\* The replacement with the captured text HTML-escaped.
WrapMatchesEscaped(content, regex, open, close) ==
    Replace(content, regex, LAMBDA m, k :
        open \o escapeHtml(Group(content, m, 1)) \o close)

WrapMatches(content, regex, open, close) ==
    Replace(content, regex, LAMBDA m, k : open \o Group(content, m, 1) \o close)

\* /--([^-]+)--/g
renderWikiBold(content) ==
    WrapMatches(content, DelimitedRegex("-"), Chars("<strong>"), Chars("</strong>"))

\* /~~([^~]+)~~/g
renderStrikethrough(content) ==
    WrapMatches(content, DelimitedRegex("~"), Chars("<del>"), Chars("</del>"))

\* /^---+$/gm
horizontalRuleRegex == <<Bol, Lit("-"), Lit("-"), Plus(Cls({"-"})), Eol>>

renderHorizontalRules(content) ==
    Replace(content, horizontalRuleRegex, LAMBDA m, k : Chars("<hr>"))

\* /```([\s\S]*?)```/g
codeBlockRegex ==
    <<Lit(Backtick), Lit(Backtick), Lit(Backtick), Open(1),
      Rep(NotCls({}), 0, 0 - 1, FALSE), Close(1),
      Lit(Backtick), Lit(Backtick), Lit(Backtick)>>

renderCodeBlocks(content) ==
    Replace(content, codeBlockRegex, LAMBDA m, k :
        Chars("<pre><code>") \o escapeHtml(trim(Group(content, m, 1)))
        \o Chars("</code></pre>"))

\* /`([^`]+)`/g
inlineCodeRegex ==
    <<Lit(Backtick), Open(1), Plus(NotCls({Backtick})), Close(1), Lit(Backtick)>>

renderInlineCode(content) ==
    WrapMatches(content, inlineCodeRegex, Chars("<code>"), Chars("</code>"))

\* /!\[([^\]]+)\]/g
imageRegex == <<Lit("!"), Lit("["), Open(1), Plus(NotCls({"]"})), Close(1), Lit("]")>>

ImageNotFoundHtml(imageName) ==
    Chars("<span style=\"color: #ef4444; font-style: italic;\">[")
    \o <<"U+C774", "U+BBF8", "U+C9C0">> \o Chars(" \"") \o escapeHtml(imageName)
    \o Chars("\"") \o <<"U+B97C">> \o Chars(" ") \o <<"U+CC3E", "U+C744">> \o Chars(" ")
    \o <<"U+C218">> \o Chars(" ") \o <<"U+C5C6", "U+C2B5", "U+B2C8", "U+B2E4">>
    \o Chars("]</span>")

ImageHtml(image, imageName, caption) ==
    Chars("<img src=\"") \o DataOf(image) \o Chars("\" alt=\"") \o escapeHtml(imageName)
    \o Chars("\" title=\"") \o escapeHtml(imageName) \o Chars("\">")
    \o (IF caption # <<>>
        THEN Chars("<div class=\"image-caption\">") \o escapeHtml(caption)
             \o Chars("</div>")
        ELSE <<>>)

\* The replacement without the test of image: image.data is read of null.
ImageReplacementUnguarded(images, match, imageRef) ==
    LET parts == split(imageRef, "|")
        imageName == trim(parts[1])
        caption == IF Len(parts) >= 2 /\ parts[2] # <<>> THEN trim(parts[2]) ELSE <<>>
    IN ImageHtml(getImage(images, imageName), imageName, caption)

\* The replacement of one ![imageRef] match.
ImageReplacement(images, match, imageRef) ==
    LET parts == split(imageRef, "|")
        imageName == trim(parts[1])
        caption == IF Len(parts) >= 2 /\ parts[2] # <<>> THEN trim(parts[2]) ELSE <<>>
        image == getImage(images, imageName)
    IN IF windowWikiStorage
       THEN IF image # Null THEN ImageHtml(image, imageName, caption)
            ELSE ImageNotFoundHtml(imageName)
       ELSE match

renderImages(content, images) ==
    Replace(content, imageRegex, LAMBDA m, k :
        ImageReplacement(images, Whole(content, m), Group(content, m, 1)))

\* /\*\*([^*]+)\*\*/g
renderBold(content) ==
    WrapMatches(content, DelimitedRegex("*"), Chars("<strong>"), Chars("</strong>"))

\* An italic pattern that asks for no closing asterisk.
italicRegexOpenEnded == <<Lit("*"), Open(1), Plus(NotCls({"*"})), Close(1)>>

\* /\*([^*]+)\*/g
italicRegex == <<Lit("*"), Open(1), Plus(NotCls({"*"})), Close(1), Lit("*")>>

renderItalic(content) ==
    WrapMatches(content, italicRegex, Chars("<em>"), Chars("</em>"))

\* line.match(/^>\s+(.+)$/)
blockquoteRegex ==
    <<Bos, Lit(">"), Plus(Cls(SpaceChars)), Open(1), Plus(AnyChar), Close(1), Eos>>

BlockquoteHtml(blockquoteContent) ==
    Chars("<blockquote>") \o blockquoteContent \o Chars("</blockquote>")

\* The loop of renderBlockquotes from line k on.
RECURSIVE BlockquoteLoop(_, _, _, _, _)
BlockquoteLoop(lines, k, result, inBlockquote, blockquoteContent) ==
    IF k > Len(lines)
    THEN IF inBlockquote THEN Append(result, BlockquoteHtml(blockquoteContent))
         ELSE result
    ELSE LET m == FirstMatch(blockquoteRegex, lines[k])
         IN IF m.ok
            THEN BlockquoteLoop(lines, k + 1, result, TRUE,
                     (IF blockquoteContent # <<>> THEN blockquoteContent \o <<" ">>
                      ELSE blockquoteContent)
                     \o SubSeq(lines[k], m.caps[1][1], m.caps[1][2] - 1))
            ELSE BlockquoteLoop(lines, k + 1,
                     Append(IF inBlockquote
                            THEN Append(result, BlockquoteHtml(blockquoteContent))
                            ELSE result, lines[k]),
                     FALSE, <<>>)

renderBlockquotes(content) ==
    join(BlockquoteLoop(split(content, "\n"), 1, <<>>, FALSE, <<>>), <<"\n">>)

\* [a-zA-Z0-9_-]
VideoIdChars == Cls(Letters \cup Digits \cup {"_", "-"})

\* this.youtubeEmbedPattern = /\[\[htp:\/\/yt\.([a-zA-Z0-9_-]+)\]\]/g
youtubeEmbedPattern ==
    LitSeq("[[htp://yt.") \o <<Open(1), Plus(VideoIdChars), Close(1)>> \o LitSeq("]]")

YouTubeHtml(cleanVideoId) ==
    Chars("<div class=\"youtube-embed-container\">\n                <div class=\"youtube-loading\">")
    \o <<"U+B3D9", "U+C601", "U+C0C1", "U+C744">> \o Chars(" ")
    \o <<"U+BD88", "U+B7EC", "U+C624", "U+B294">> \o Chars(" ") \o <<"U+C911">>
    \o Chars("...</div>\n                <iframe \n                    class=\"youtube-embed\" \n                    src=\"https://www.youtube-nocookie.com/embed/")
    \o cleanVideoId
    \o Chars("?rel=0&modestbranding=1\" \n                    title=\"YouTube video: ")
    \o cleanVideoId
    \o Chars("\" \n                    frameborder=\"0\" \n                    allow=\"accelerometer; autoplay; clipboard-write; encrypted-media; gyroscope; picture-in-picture\" \n                    allowfullscreen\n                    loading=\"lazy\"\n                    onload=\"this.previousElementSibling.style.display='none';\"\n                    onerror=\"this.previousElementSibling.textContent='")
    \o <<"U+B3D9", "U+C601", "U+C0C1", "U+C744">> \o Chars(" ")
    \o <<"U+BD88", "U+B7EC", "U+C62C">> \o Chars(" ") \o <<"U+C218">> \o Chars(" ")
    \o <<"U+C5C6", "U+C2B5", "U+B2C8", "U+B2E4">>
    \o Chars(".';\">\n                </iframe>\n            </div>")

renderYouTubeEmbeds(content) ==
    Replace(content, youtubeEmbedPattern, LAMBDA m, k :
        LET cleanVideoId == SelectSeq(Group(content, m, 1),
                                LAMBDA c : InCls(c, VideoIdChars))
        IN IF cleanVideoId = <<>> THEN Whole(content, m)
           ELSE YouTubeHtml(cleanVideoId))

\* this.namuwikiLinkPattern = /\[\[([^|\]]+)(?:\|([^\]]+))?\]\]/g
namuwikiLinkPattern ==
    <<Lit("["), Lit("["), Open(1), Plus(NotCls({"|", "]"})), Close(1),
      Split(7, 11), Lit("|"), Open(2), Plus(NotCls({"]"})), Close(2),
      Lit("]"), Lit("]")>>

renderNamewikiLinks(content) ==
    Replace(content, namuwikiLinkPattern, LAMBDA m, k :
        LET target == Group(content, m, 1)
            display == Group(content, m, 2)
            displayText == IF display # <<>> THEN display ELSE target
        IN IF startsWith(target, Chars("htp://yt.")) THEN Whole(content, m)
           ELSE Chars("<a href=\"/") \o encodedUrl(target)
                \o Chars("\" class=\"internal-link namuwiki-link\" data-page=\"")
                \o target \o Chars("\">") \o displayText \o Chars("</a>"))

\* this.linkPattern = /\[([^\]]+)\]\(([^)]+)\)/g
linkPattern ==
    <<Lit("["), Open(1), Plus(NotCls({"]"})), Close(1), Lit("]"), Lit("("),
      Open(2), Plus(NotCls({")"})), Close(2), Lit(")")>>

\* this.internalLinkPattern = /\[([^\]]+)\]\(([^):/]+)\)(?!\w)/g
internalLinkPattern ==
    <<Lit("["), Open(1), Plus(NotCls({"]"})), Close(1), Lit("]"), Lit("("),
      Open(2), Plus(NotCls({")", ":", "/"})), Close(2), Lit(")"),
      NotAhead(Cls(WordChars))>>

\* !url.includes('://') && !url.startsWith('#')
isInternal(url) == ~includes(url, Chars("://")) /\ ~startsWith(url, Chars("#"))

renderLinks(content) ==
    Replace(content, linkPattern, LAMBDA m, k :
        LET text == Group(content, m, 1)
            url == Group(content, m, 2)
        IN IF isInternal(url)
           THEN Chars("<a href=\"/") \o encodedUrl(url)
                \o Chars("\" class=\"internal-link\" data-page=\"") \o url
                \o Chars("\">") \o text \o Chars("</a>")
           ELSE Chars("<a href=\"") \o url
                \o Chars("\" target=\"_blank\" rel=\"noopener noreferrer\">")
                \o text \o Chars("</a>"))

\* line.match(/^(\s*)-\s+(.+)$/)
unorderedRegex ==
    <<Bos, Open(1), Star(Cls(SpaceChars)), Close(1), Lit("-"), Plus(Cls(SpaceChars)),
      Open(2), Plus(AnyChar), Close(2), Eos>>

\* line.match(/^(\s*)\d+\.\s+(.+)$/)
orderedRegex ==
    <<Bos, Open(1), Star(Cls(SpaceChars)), Close(1), Plus(Cls(Digits)), Lit("."),
      Plus(Cls(SpaceChars)), Open(2), Plus(AnyChar), Close(2), Eos>>

ListItemHtml(line, m) ==
    Chars("<li>") \o SubSeq(line, m.caps[2][1], m.caps[2][2] - 1) \o Chars("</li>")

\* A turn of the loop that leaves an open list open at a line that is no item.
ListStepKeepOpen(line, inUnorderedList, inOrderedList) ==
    LET unorderedMatch == FirstMatch(unorderedRegex, line)
        orderedMatch == FirstMatch(orderedRegex, line)
    IN IF unorderedMatch.ok
       THEN [out |-> (IF ~inUnorderedList THEN <<Chars("<ul>")>> ELSE <<>>)
                     \o (IF inOrderedList THEN <<Chars("</ol>")>> ELSE <<>>)
                     \o <<ListItemHtml(line, unorderedMatch)>>,
             inUnorderedList |-> TRUE, inOrderedList |-> FALSE]
       ELSE IF orderedMatch.ok
       THEN [out |-> (IF ~inOrderedList THEN <<Chars("<ol>")>> ELSE <<>>)
                     \o (IF inUnorderedList THEN <<Chars("</ul>")>> ELSE <<>>)
                     \o <<ListItemHtml(line, orderedMatch)>>,
             inUnorderedList |-> FALSE, inOrderedList |-> TRUE]
       ELSE [out |-> <<line>>,
             inUnorderedList |-> inUnorderedList, inOrderedList |-> inOrderedList]

\* A turn of the loop that opens the list of an item and leaves a list of the
\* other kind open.
ListStepBothOpen(line, inUnorderedList, inOrderedList) ==
    LET unorderedMatch == FirstMatch(unorderedRegex, line)
        orderedMatch == FirstMatch(orderedRegex, line)
    IN IF unorderedMatch.ok
       THEN [out |-> (IF ~inUnorderedList THEN <<Chars("<ul>")>> ELSE <<>>)
                     \o <<ListItemHtml(line, unorderedMatch)>>,
             inUnorderedList |-> TRUE, inOrderedList |-> inOrderedList]
       ELSE IF orderedMatch.ok
       THEN [out |-> (IF ~inOrderedList THEN <<Chars("<ol>")>> ELSE <<>>)
                     \o <<ListItemHtml(line, orderedMatch)>>,
             inUnorderedList |-> inUnorderedList, inOrderedList |-> TRUE]
       ELSE [out |-> (IF inUnorderedList THEN <<Chars("</ul>")>> ELSE <<>>)
                     \o (IF inOrderedList THEN <<Chars("</ol>")>> ELSE <<>>)
                     \o <<line>>,
             inUnorderedList |-> FALSE, inOrderedList |-> FALSE]

\* What one turn of the loop of renderLists appends to result, and the two
\* flags after it.
ListStep(line, inUnorderedList, inOrderedList) ==
    LET unorderedMatch == FirstMatch(unorderedRegex, line)
        orderedMatch == FirstMatch(orderedRegex, line)
    IN IF unorderedMatch.ok
       THEN [out |-> (IF ~inUnorderedList THEN <<Chars("<ul>")>> ELSE <<>>)
                     \o (IF inOrderedList THEN <<Chars("</ol>")>> ELSE <<>>)
                     \o <<ListItemHtml(line, unorderedMatch)>>,
             inUnorderedList |-> TRUE, inOrderedList |-> FALSE]
       ELSE IF orderedMatch.ok
       THEN [out |-> (IF ~inOrderedList THEN <<Chars("<ol>")>> ELSE <<>>)
                     \o (IF inUnorderedList THEN <<Chars("</ul>")>> ELSE <<>>)
                     \o <<ListItemHtml(line, orderedMatch)>>,
             inUnorderedList |-> FALSE, inOrderedList |-> TRUE]
       ELSE [out |-> (IF inUnorderedList THEN <<Chars("</ul>")>> ELSE <<>>)
                     \o (IF inOrderedList THEN <<Chars("</ol>")>> ELSE <<>>)
                     \o <<line>>,
             inUnorderedList |-> FALSE, inOrderedList |-> FALSE]

\* The loop of renderLists from line k on, and the closing tags after it.
RECURSIVE ListLoop(_, _, _, _, _), ListTurn(_, _, _, _)

\* The loop after the turn st at line k.
ListTurn(lines, k, result, st) ==
    ListLoop(lines, k + 1, result \o st.out, st.inUnorderedList, st.inOrderedList)

ListLoop(lines, k, result, inUnorderedList, inOrderedList) ==
    IF k > Len(lines)
    THEN result \o (IF inUnorderedList THEN <<Chars("</ul>")>> ELSE <<>>)
                \o (IF inOrderedList THEN <<Chars("</ol>")>> ELSE <<>>)
    ELSE ListTurn(lines, k, result,
                  ListStep(lines[k], inUnorderedList, inOrderedList))

renderLists(content) ==
    join(ListLoop(split(content, "\n"), 1, <<>>, FALSE, FALSE), <<"\n">>)

\* trimmed.match(/^\d+\. /)
numberedStartRegex == <<Bos, Plus(Cls(Digits)), Lit("."), Lit(" ")>>

\* A test that takes a blank line and a tag for the end of a paragraph, and
\* nothing else.
isBlockElementTagOnly(trimmed) == trimmed = <<>> \/ startsWith(trimmed, Chars("<"))

\* The test of renderParagraphs for a line that ends the paragraph.
isBlockElement(trimmed) ==
    \/ trimmed = <<>>
    \/ startsWith(trimmed, Chars("<"))
    \/ startsWith(trimmed, Chars("#"))
    \/ trimmed = Chars("<hr>")
    \/ startsWith(trimmed, Chars("- "))
    \/ startsWith(trimmed, Chars("* "))
    \/ FirstMatch(numberedStartRegex, trimmed).ok
    \/ startsWith(trimmed, Chars("> "))
    \/ startsWith(trimmed, <<Backtick, Backtick, Backtick>>)

\* A paragraph whose text is HTML-escaped, which renderParagraphs does not do.
ParagraphHtmlEscaped(currentParagraph) ==
    Chars("<p>") \o escapeHtml(trim(currentParagraph)) \o Chars("</p>")

ParagraphHtml(currentParagraph) ==
    Chars("<p>") \o trim(currentParagraph) \o Chars("</p>")

\* The loop of renderParagraphs from line k on, and the last paragraph.
RECURSIVE ParagraphLoop(_, _, _, _)
ParagraphLoop(lines, k, result, currentParagraph) ==
    IF k > Len(lines)
    THEN IF currentParagraph # <<>>
         THEN Append(result, ParagraphHtml(currentParagraph)) ELSE result
    ELSE LET line == lines[k]
             trimmed == trim(line)
         IN IF isBlockElement(trimmed)
            THEN LET flushed == IF currentParagraph # <<>>
                                THEN Append(result, ParagraphHtml(currentParagraph))
                                ELSE result
                 IN ParagraphLoop(lines, k + 1,
                        IF trimmed # <<>> THEN Append(flushed, line) ELSE flushed,
                        <<>>)
            ELSE ParagraphLoop(lines, k + 1, result,
                     (IF currentParagraph # <<>> THEN currentParagraph \o <<" ">>
                      ELSE currentParagraph) \o trimmed)

renderParagraphs(content) ==
    join(ParagraphLoop(split(content, "\n"), 1, <<>>, <<>>), <<"\n">>)

\* The fixed markup of an empty page.
EmptyPageHtml ==
    Chars("<p><em>") \o <<"U+C774">> \o Chars(" ")
    \o <<"U+D398", "U+C774", "U+C9C0", "U+B294">> \o Chars(" ")
    \o <<"U+BE44", "U+C5B4", "U+C788", "U+C2B5", "U+B2C8", "U+B2E4">> \o Chars(". ")
    \o <<"U+D3B8", "U+C9D1">> \o Chars(" ") \o <<"U+BC84", "U+D2BC", "U+C744">>
    \o Chars(" ") \o <<"U+D074", "U+B9AD", "U+D558", "U+C5EC">> \o Chars(" ")
    \o <<"U+B0B4", "U+C6A9", "U+C744">> \o Chars(" ")
    \o <<"U+CD94", "U+AC00", "U+D558", "U+C138", "U+C694">> \o Chars(".</em></p>")

\* [...new Set(links)]: the first occurrence of each element, in order.
Dedup(links) ==
    LET first == {i \in 1..Len(links) : \A j \in 1..(i - 1) : links[j] # links[i]}
        f[i \in 0..Len(links)] ==
            IF i = 0 THEN <<>>
            ELSE IF i \in first THEN Append(f[i - 1], links[i]) ELSE f[i - 1]
    IN f[Len(links)]

\* The lastIndex of the four patterns the constructor makes, each with the g flag.
FreshIndex ==
    [linkPattern |-> 0, internalLinkPattern |-> 0, namuwikiLinkPattern |-> 0,
     youtubeEmbedPattern |-> 0]

\* The index after content.replace(this.<pattern>, ...): replace with a global
\* pattern searches from 0 and leaves lastIndex at 0.
AfterReplace(index, pattern) == [index EXCEPT ![pattern] = 0]

\* this.<pattern>.lastIndex = 0
ResetIndex(index) == 0

\* The index a loop leaves that was left at its last match.
AfterLoopAtLastMatch(ms) == IF ms = <<>> THEN 0 ELSE ms[Len(ms)].end - 1

\* The index when the loop ends: the exec that found nothing has set it to 0.
AfterLoop(ms) == 0

\* while ((match = regex.exec(content)) !== null): the matches from index on.
ExecLoop(regex, content, index) ==
    MatchesFrom(regex, content, MatchStarts(regex, content), index + 1)

\* The links of getLinkedPages, md and nw the matches of its two loops.
LinkedPagesOf(content, md, nw) ==
    Dedup(SelectSeq([k \in 1..Len(md) |-> Group(content, md[k], 2)], isInternal)
          \o [k \in 1..Len(nw) |-> Group(content, nw[k], 1)])

\* getLinkedPages on a renderer whose patterns stand at index.
LinkedPagesFrom(content, index) ==
    LinkedPagesOf(content,
        ExecLoop(internalLinkPattern, content, ResetIndex(index.internalLinkPattern)),
        ExecLoop(namuwikiLinkPattern, content, ResetIndex(index.namuwikiLinkPattern)))

\* The index getLinkedPages leaves.
IndexAfterLinkedPages(content, index) ==
    [index EXCEPT
        !.internalLinkPattern =
            AfterLoop(ExecLoop(internalLinkPattern, content,
                               ResetIndex(index.internalLinkPattern))),
        !.namuwikiLinkPattern =
            AfterLoop(ExecLoop(namuwikiLinkPattern, content,
                               ResetIndex(index.namuwikiLinkPattern)))]

\* getLinkedPages: the targets of the Markdown links, then of the wiki links.
getLinkedPages(content) == LinkedPagesFrom(content, FreshIndex)

\* The passes with renderItalic before renderBold.
PassOrderItalicFirst ==
    <<"renderWikiHeaders", "renderCategories", "renderTags", "renderTableOfContents",
      "renderFootnotes", "renderWikiBold", "renderStrikethrough", "renderHeaders",
      "renderHorizontalRules", "renderCodeBlocks", "renderInlineCode", "renderImages",
      "renderItalic", "renderBold", "renderBlockquotes", "renderYouTubeEmbeds",
      "renderNamewikiLinks", "renderLinks", "renderLists", "renderParagraphs">>

\* The passes of render, in the order render applies them.
PassOrder ==
    <<"renderWikiHeaders", "renderCategories", "renderTags", "renderTableOfContents",
      "renderFootnotes", "renderWikiBold", "renderStrikethrough", "renderHeaders",
      "renderHorizontalRules", "renderCodeBlocks", "renderInlineCode", "renderImages",
      "renderBold", "renderItalic", "renderBlockquotes", "renderYouTubeEmbeds",
      "renderNamewikiLinks", "renderLinks", "renderLists", "renderParagraphs">>

\* html = this.<pass>(html)
ApplyPass(pass, html, images) ==
    CASE pass = "renderWikiHeaders" -> renderWikiHeaders(html)
      [] pass = "renderCategories" -> renderCategories(html)
      [] pass = "renderTags" -> renderTags(html)
      [] pass = "renderTableOfContents" -> renderTableOfContents(html)
      [] pass = "renderFootnotes" -> renderFootnotes(html)
      [] pass = "renderWikiBold" -> renderWikiBold(html)
      [] pass = "renderStrikethrough" -> renderStrikethrough(html)
      [] pass = "renderHeaders" -> renderHeaders(html)
      [] pass = "renderHorizontalRules" -> renderHorizontalRules(html)
      [] pass = "renderCodeBlocks" -> renderCodeBlocks(html)
      [] pass = "renderInlineCode" -> renderInlineCode(html)
      [] pass = "renderImages" -> renderImages(html, images)
      [] pass = "renderBold" -> renderBold(html)
      [] pass = "renderItalic" -> renderItalic(html)
      [] pass = "renderBlockquotes" -> renderBlockquotes(html)
      [] pass = "renderYouTubeEmbeds" -> renderYouTubeEmbeds(html)
      [] pass = "renderNamewikiLinks" -> renderNamewikiLinks(html)
      [] pass = "renderLinks" -> renderLinks(html)
      [] pass = "renderLists" -> renderLists(html)
      [] pass = "renderParagraphs" -> renderParagraphs(html)

\* The text after passes k.. of render, html being the text before pass k; a
\* pass that raises ends the render with what it raised.
RECURSIVE RenderFrom(_, _, _)
RenderFrom(k, html, images) ==
    IF k > Len(PassOrder) \/ Raises(html) THEN html
    ELSE RenderFrom(k + 1, ApplyPass(PassOrder[k], html, images), images)

\* render(content)
render(content, images) ==
    IF content = <<>> THEN EmptyPageHtml ELSE RenderFrom(1, content, images)

\* [.*+?^${}()|[\]\\]
RegexMeta == Range(Chars(".*+?^${}()|[]\\"))

\* The search term used as a pattern as it is.
escapeRegexNone(text) == text

\* escapeRegex: text.replace(/[.*+?^${}()|[\]\\]/g, '\\$&')
escapeRegex(text) ==
    Flatten([k \in 1..Len(text) |->
        IF text[k] \in RegexMeta THEN <<"\\", text[k]>> ELSE <<text[k]>>], 1)

UpperChar(c) ==
    IF c \in Range(LowerSeq)
    THEN UpperSeq[CHOOSE i \in 1..Len(LowerSeq) : LowerSeq[i] = c]
    ELSE c

\* A pattern without the i flag: a unit matches itself alone.
CaseSensitive(c) == {c}

\* The units that match c under the i flag.
CaseFold(c) == {c, LowerChar(c), UpperChar(c)}

\* What stands for a pattern the RegExp constructor rejects.
SyntaxError == [op |-> "error"]

Invalid(regex) == \E k \in 1..Len(regex) : regex[k].op = "error"

\* The atoms of a pattern source, from unit k on: \c is the unit c, a dot is
\* any unit of the line, a unit that is no metacharacter is itself.  A group
\* or class delimiter or a quantifier with nothing to close, open or repeat
\* is a SyntaxError.
RECURSIVE SourceAtoms(_, _)
SourceAtoms(source, k) ==
    IF k > Len(source) THEN <<>>
    ELSE IF source[k] = "\\"
    THEN IF k = Len(source) THEN <<SyntaxError>>
         ELSE <<Rep(Cls(CaseFold(source[k + 1])), 1, 1, TRUE)>>
              \o SourceAtoms(source, k + 2)
    ELSE IF source[k] = "."
    THEN <<Rep(AnyChar, 1, 1, TRUE)>> \o SourceAtoms(source, k + 1)
    ELSE IF source[k] \in {"(", ")", "[", "*", "+", "?"}
    THEN <<SyntaxError>>
    ELSE <<Rep(Cls(CaseFold(source[k])), 1, 1, TRUE)>> \o SourceAtoms(source, k + 1)

\* new RegExp(`(${source})`, 'gi')
NewRegExp(source) ==
    LET atoms == SourceAtoms(source, 1)
    IN IF Invalid(atoms) THEN <<SyntaxError>>
       ELSE <<Open(1)>> \o atoms \o <<Close(1)>>

\* content.replace(regex, '<mark>$1</mark>')
MarkMatches(content, regex) ==
    IF Invalid(regex) THEN <<Thrown>>
    ELSE Replace(content, regex, LAMBDA m, k :
             Chars("<mark>") \o Group(content, m, 1) \o Chars("</mark>"))

\* highlightSearchTerm(content, searchTerm)
highlightSearchTerm(content, searchTerm) ==
    IF searchTerm = <<>> THEN content
    ELSE MarkMatches(content, NewRegExp(escapeRegex(searchTerm)))

\* A content that is null or undefined instead of a string.
NullContent == <<"(null)">>

\* A test for null alone, which lets the empty string through to the passes.
FalsyNullOnly(content) == content = NullContent

\* !content
Falsy(content) == content = <<>> \/ content = NullContent

\* ----------------------------------------------------- the state machine

VARIABLES
    images,     \* the names of the images in localStorage['wiki-images']
    content,    \* the text the caller passes
    term,       \* the search term the caller passes
    op,         \* the operation in progress, "none" outside a call
    pc,         \* "idle", the pass that runs next, "done" or "raised"
    html,       \* the local html of render
    footnotes,  \* the local footnotes of the last renderFootnotes
    ran,        \* the passes this render has applied
    lastIndex,  \* the lastIndex of each pattern of the renderer
    result      \* what getLinkedPages, generateTOC or highlightSearchTerm returned

vars == <<images, content, term, op, pc, html, footnotes, ran, lastIndex, result>>

\* The pass that follows pass, "done" after the last.
NextPc(pass) ==
    LET k == CHOOSE i \in 1..Len(PassOrder) : PassOrder[i] = pass
    IN IF k = Len(PassOrder) THEN "done" ELSE PassOrder[k + 1]

\* A renderer and a storage, no call made yet.
InitWith(Contents, Terms, ImageSets) ==
    /\ content \in Contents
    /\ term \in Terms
    /\ images \in ImageSets
    /\ op = "none"
    /\ pc = "idle"
    /\ html = <<>>
    /\ footnotes = <<>>
    /\ ran = <<>>
    /\ lastIndex = FreshIndex
    /\ result = <<>>

\* render(content) up to its first pass.
Render ==
    /\ pc = "idle"
    /\ op' = "render"
    /\ footnotes' = <<>>
    /\ ran' = <<>>
    /\ IF Falsy(content)
       THEN html' = EmptyPageHtml /\ pc' = "done"
       ELSE html' = content /\ pc' = PassOrder[1]
    /\ UNCHANGED <<images, content, term, lastIndex, result>>

\* html = this.<pass>(html): out is what the pass returns, notes the footnotes
\* render holds after it, index the lastIndex of the patterns after it.
Pass(pass, out, notes, index) ==
    /\ op = "render"
    /\ pc = pass
    /\ IF Raises(out)
       THEN html' = html /\ pc' = "raised"
       ELSE html' = out /\ pc' = NextPc(pass)
    /\ ran' = Append(ran, pass)
    /\ footnotes' = notes
    /\ lastIndex' = index
    /\ UNCHANGED <<images, content, term, op, result>>

RenderWikiHeaders == Pass("renderWikiHeaders", renderWikiHeaders(html), footnotes, lastIndex)

RenderCategories == Pass("renderCategories", renderCategories(html), footnotes, lastIndex)

RenderTags == Pass("renderTags", renderTags(html), footnotes, lastIndex)

RenderTableOfContents == Pass("renderTableOfContents", renderTableOfContents(html), footnotes, lastIndex)

RenderFootnotes == Pass("renderFootnotes", renderFootnotes(html), FootnotesOf(html), lastIndex)

RenderWikiBold == Pass("renderWikiBold", renderWikiBold(html), footnotes, lastIndex)

RenderStrikethrough == Pass("renderStrikethrough", renderStrikethrough(html), footnotes, lastIndex)

RenderHeaders == Pass("renderHeaders", renderHeaders(html), footnotes, lastIndex)

RenderHorizontalRules == Pass("renderHorizontalRules", renderHorizontalRules(html), footnotes, lastIndex)

RenderCodeBlocks == Pass("renderCodeBlocks", renderCodeBlocks(html), footnotes, lastIndex)

RenderInlineCode == Pass("renderInlineCode", renderInlineCode(html), footnotes, lastIndex)

RenderImages == Pass("renderImages", renderImages(html, images), footnotes, lastIndex)

RenderBold == Pass("renderBold", renderBold(html), footnotes, lastIndex)

RenderItalic == Pass("renderItalic", renderItalic(html), footnotes, lastIndex)

RenderBlockquotes == Pass("renderBlockquotes", renderBlockquotes(html), footnotes, lastIndex)

RenderYouTubeEmbeds ==
    Pass("renderYouTubeEmbeds", renderYouTubeEmbeds(html), footnotes, AfterReplace(lastIndex, "youtubeEmbedPattern"))

RenderNamewikiLinks ==
    Pass("renderNamewikiLinks", renderNamewikiLinks(html), footnotes, AfterReplace(lastIndex, "namuwikiLinkPattern"))

RenderLinks ==
    Pass("renderLinks", renderLinks(html), footnotes, AfterReplace(lastIndex, "linkPattern"))

RenderLists == Pass("renderLists", renderLists(html), footnotes, lastIndex)

RenderParagraphs == Pass("renderParagraphs", renderParagraphs(html), footnotes, lastIndex)

\* A call of an operation that is one step: its value, or what it raised, and
\* the lastIndex of the patterns after it.
Call(name, value, raised, index) ==
    /\ pc = "idle"
    /\ content # NullContent
    /\ op' = name
    /\ IF raised
       THEN result' = <<>> /\ pc' = "raised"
       ELSE result' = value /\ pc' = "done"
    /\ lastIndex' = index
    /\ UNCHANGED <<images, content, term, html, footnotes, ran>>

GetLinkedPages ==
    Call("getLinkedPages", LinkedPagesFrom(content, lastIndex), FALSE,
         IndexAfterLinkedPages(content, lastIndex))

GenerateTOC == Call("generateTOC", generateTOC(content), FALSE, lastIndex)

HighlightSearchTerm ==
    Call("highlightSearchTerm", highlightSearchTerm(content, term),
         Raises(highlightSearchTerm(content, term)), lastIndex)

\* The call returns: its locals are gone, the patterns stay as they are.
Return ==
    /\ pc \in {"done", "raised"}
    /\ op' = "none"
    /\ pc' = "idle"
    /\ html' = <<>>
    /\ footnotes' = <<>>
    /\ ran' = <<>>
    /\ result' = <<>>
    /\ UNCHANGED <<images, content, term, lastIndex>>

\* The call returns and a caller comes with another text.
ReturnToCaller(Contents) ==
    /\ pc \in {"done", "raised"}
    /\ content' \in Contents
    /\ op' = "none"
    /\ pc' = "idle"
    /\ html' = <<>>
    /\ footnotes' = <<>>
    /\ ran' = <<>>
    /\ result' = <<>>
    /\ UNCHANGED <<images, term, lastIndex>>

Next ==
    \/ Render
    \/ RenderWikiHeaders
    \/ RenderCategories
    \/ RenderTags
    \/ RenderTableOfContents
    \/ RenderFootnotes
    \/ RenderWikiBold
    \/ RenderStrikethrough
    \/ RenderHeaders
    \/ RenderHorizontalRules
    \/ RenderCodeBlocks
    \/ RenderInlineCode
    \/ RenderImages
    \/ RenderBold
    \/ RenderItalic
    \/ RenderBlockquotes
    \/ RenderYouTubeEmbeds
    \/ RenderNamewikiLinks
    \/ RenderLinks
    \/ RenderLists
    \/ RenderParagraphs
    \/ GetLinkedPages
    \/ GenerateTOC
    \/ HighlightSearchTerm
    \/ Return

\* ------------------------------------------------------------ the inputs

\* The texts made of at most n of the fragments F.
RECURSIVE Texts(_, _)
Texts(F, n) ==
    IF n = 0 THEN {<<>>}
    ELSE LET T == Texts(F, n - 1) IN T \cup {t \o f : t \in T, f \in F}

\* The texts of at most n lines, each one of L.
RECURSIVE LinesOf(_, _)
LinesOf(L, n) ==
    IF n = 1 THEN L
    ELSE LET T == LinesOf(L, n - 1) IN T \cup {t \o <<"\n">> \o l : t \in T, l \in L}

\* The longest text of the plain, footnote and emphasis families, in fragments.
MaxFrags == 3

\* The longest text of the image and mixed families, in fragments.
MaxRefs == 2

\* The longest text of the list family, in lines.
MaxListLines == 4

\* The longest text of the header family, in lines.
MaxHeaderLines == 2

\* The longest text of the paragraph family, in lines.
MaxParagraphLines == 3

SearchTerms == {Chars("a")}

NoImages == {{}}

\* Plain text, and a caller that passes null.
PlainFrags == {Chars("a"), Chars("&"), Chars(" "), Chars("\n"), Chars("<")}

Init == InitWith(Texts(PlainFrags, MaxFrags) \cup {NullContent}, SearchTerms, NoImages)

Spec == Init /\ [][Next]_vars

\* Text with footnotes, with and without a text run before the bracket.
FootnoteFrags == {Chars("a"), Chars(" "), Chars("b[* x]"), Chars("[*y]"), Chars("\n")}

InitFootnotes == InitWith(Texts(FootnoteFrags, MaxFrags), SearchTerms, NoImages)

SpecFootnotes == InitFootnotes /\ [][Next]_vars

\* The three-line page of the end-to-end scenario, and its neighbours.
TitleLines == {Chars("= Title ="), Chars("# Title")}

BodyLine == Chars("Some **bold** text with a link [[Other Page]] and a tag #demo.")

BodyLines == {BodyLine, Chars("Some text.")}

BareNote == Chars("[* a footnote]")

NoteLines == {BareNote, Chars("note[* a footnote]"), Chars("See the note.[* a footnote]")}

ScenarioTexts ==
    {t \o <<"\n">> \o b \o <<"\n">> \o n : t \in TitleLines, b \in BodyLines, n \in NoteLines}

ScenarioText == Chars("= Title =") \o <<"\n">> \o BodyLine \o <<"\n">> \o BareNote

InitScenario == InitWith(ScenarioTexts, SearchTerms, NoImages)

SpecScenario == InitScenario /\ [][Next]_vars

\* Links of both forms, internal and external.
LinkFrags ==
    {Chars("[B](C)"), Chars("[[A]]"), Chars("[[A|z]]"), Chars("x"), Chars(" and "),
     Chars("[D](a/b)"), Chars("[E](http://e)")}

InitLinks == InitWith(Texts(LinkFrags, MaxFrags), SearchTerms, NoImages)

SpecLinks == InitLinks /\ [][Next]_vars

\* Balanced bold and italic spans, apart and side by side.
EmphasisFrags == {Chars("**bold**"), Chars("*italic*"), Chars(" and "), Chars("x")}

InitEmphasis == InitWith(Texts(EmphasisFrags, MaxFrags), SearchTerms, NoImages)

SpecEmphasis == InitEmphasis /\ [][Next]_vars

\* Image references, to a storage that holds pic or holds nothing.
ImageFrags ==
    {Chars("![pic]"), Chars("![pic|cap]"), Chars("![none]"), Chars("a"), Chars(" ")}

ImageNames == {Chars("pic"), Chars("none")}

InitImages == InitWith(Texts(ImageFrags, MaxRefs), SearchTerms, {{}, {Chars("pic")}})

SpecImages == InitImages /\ [][Next]_vars

\* Lines of lists of both kinds, text lines and blank lines.
ListLines == {Chars("- a"), Chars("- b"), Chars("1. c"), Chars("text"), <<>>}

InitLists == InitWith(LinesOf(ListLines, MaxListLines), SearchTerms, NoImages)

SpecLists == InitLists /\ [][Next]_vars

\* Header lines of both forms, well formed and not, and a text line.
HeaderLines ==
    {Chars("# Hello World"), Chars("## A  b-c"), Chars("= T ="), Chars("== Sub! =="),
     Chars("text"), Chars("#x"), Chars("= a"), Chars("#  "), Chars("####### s"),
     Chars("=== ==")}

InitHeaders == InitWith(LinesOf(HeaderLines, MaxHeaderLines), SearchTerms, NoImages)

SpecHeaders == InitHeaders /\ [][Next]_vars

\* Markup of every kind, search terms with metacharacters, both storages.
MixedFrags ==
    {Chars("a"), Chars("\n"), Chars("![pic]"), Chars("[[") \o <<"U+AC00">> \o Chars("]]"),
     Chars("[B](C)"), Chars("x[* y]"), Chars("("), Chars("#t")}

InitMixed ==
    InitWith(Texts(MixedFrags, MaxRefs), {Chars("("), Chars("a.")}, {{}, {Chars("pic")}})

SpecMixed == InitMixed /\ [][Next]_vars

\* ------------------------------------------------------------ properties

\* The positions of s at which the text p occurs.
Occurrences(s, p) ==
    {i \in 1..(Len(s) + 1 - Len(p)) : SubSeq(s, i, i + Len(p) - 1) = p}

Count(s, p) == Cardinality(Occurrences(s, p))

\* Where p occurs in s, for a p that occurs once.
At(s, p) == CHOOSE i \in Occurrences(s, p) : TRUE

endsWith(s, p) == Len(s) >= Len(p) /\ SubSeq(s, Len(s) + 1 - Len(p), Len(s)) = p

\* render has returned.
Rendered == op = "render" /\ pc = "done"

\* C1: render of the empty string or of null returns the fixed empty-page
\* placeholder at once: no pass has run and nothing is raised.
EmptyContentGivesPlaceholder ==
    (op = "render" /\ content \in {<<>>, NullContent}) =>
        /\ pc = "done"
        /\ html = EmptyPageHtml
        /\ ran = <<>>

NullContentRendered == Rendered /\ content = NullContent /\ html = EmptyPageHtml

\* A text no pass before renderParagraphs changes and no line of which is
\* blank or begins a block.
PlainSource(s) ==
    /\ ~Falsy(s)
    /\ \A k \in 1..(Len(PassOrder) - 1) : ApplyPass(PassOrder[k], s, {}) = s
    /\ \A k \in DOMAIN split(s, "\n") : ~isBlockElement(trim(split(s, "\n")[k]))

\* The lines of s, each trimmed, joined by single spaces.
JoinedLines(s) ==
    LET lines == split(s, "\n")
    IN join([k \in 1..Len(lines) |-> trim(lines[k])], <<" ">>)

\* C2 (amended): a non-empty text that matches no recognized syntax and has no
\* blank line renders as exactly one paragraph, <p>J</p>, where J is the lines
\* of the text, each trimmed, joined by single spaces, and not HTML-escaped.
PlainTextIsOneParagraph ==
    (Rendered /\ PlainSource(content)) =>
        html = Chars("<p>") \o JoinedLines(content) \o Chars("</p>")

PlainLinesRendered ==
    /\ Rendered
    /\ PlainSource(content)
    /\ "&" \in Range(content)
    /\ "\n" \in Range(content)

\* C2 as stated: a non-empty text that matches no recognized syntax renders as
\* <p>E</p>, where E is the text HTML-escaped.
PlainTextIsEscapedParagraph ==
    (Rendered /\ PlainSource(content)) =>
        html = Chars("<p>") \o escapeHtml(content) \o Chars("</p>")

\* The footnote constructs of a text: a text run and, right after it, [* ...].
FootnoteConstructs(s) == Len(Matches(footnoteRegex, s))

\* The in-text marker of footnote k, which refers to footnote-k.
FootnoteMarker(k) ==
    Chars("<sup><span id=\"backref-") \o ToDigits(k)
    \o Chars("\" class=\"footnote-ref\" data-footnote=\"footnote-") \o ToDigits(k)
    \o Chars("\">") \o ToDigits(k) \o Chars("</span></sup>")

\* The start of entry k of the footnote list.
FootnoteEntry(k) ==
    Chars("<li id=\"footnote-") \o ToDigits(k) \o Chars("\" class=\"footnote\">")

\* The reference of an entry back to marker k.
FootnoteBackref(k) == Chars("data-backref=\"backref-") \o ToDigits(k) \o Chars("\"")

\* C3: a text with n footnote constructs renders with n in-text markers and n
\* list entries, numbered 1..n in source order; marker k refers to footnote-k,
\* and entry k, whose id is footnote-k, refers back to backref-k, the id of
\* marker k.
FootnotesNumberedInOrder ==
    Rendered =>
        LET n == FootnoteConstructs(content)
        IN /\ Count(html, Chars("class=\"footnote-ref\"")) = n
           /\ Count(html, Chars("<li id=\"footnote-")) = n
           /\ Count(html, Chars("data-backref=")) = n
           /\ \A k \in 1..n :
                /\ Count(html, FootnoteMarker(k)) = 1
                /\ Count(html, FootnoteEntry(k)) = 1
                /\ Count(html, FootnoteBackref(k)) = 1
                /\ At(html, FootnoteMarker(k)) < At(html, FootnoteEntry(1))
                /\ At(html, FootnoteEntry(k)) < At(html, FootnoteBackref(k))
           /\ \A k \in 1..(n - 1) :
                /\ At(html, FootnoteMarker(k)) < At(html, FootnoteMarker(k + 1))
                /\ At(html, FootnoteBackref(k)) < At(html, FootnoteEntry(k + 1))

ThreeFootnotesRendered ==
    Rendered /\ FootnoteConstructs(content) = 3 /\ Len(footnotes) = 3

\* The heading, and the paragraph with its bold text, link and tag.
ScenarioHeading == Chars("<h1 id=\"title\">Title</h1>\n<p>")

ScenarioBold == Chars("<p>Some <strong>bold</strong> text with a link <a href=\"/")

ScenarioLinkAndTag ==
    Chars("\" class=\"internal-link namuwiki-link\" data-page=\"Other Page\">Other Page</a>")
    \o Chars(" and a tag <span class=\"wiki-tag\" data-tag=\"demo\"")
    \o Chars(" onclick=\"app.showTaggedPages('demo')\">#demo</span>.")

\* C4 (amended): the three-line page renders as an <h1> with id title and a
\* paragraph with <strong>bold</strong>, an internal link to Other Page and a
\* clickable #demo tag; [* a footnote], which no text run precedes, stays
\* literal text at the end of that paragraph and there is no footnotes block.
\* With a text run before the bracket the block is there, with the one entry
\* numbered 1.
ScenarioRendersWithoutFootnotes ==
    (Rendered /\ content \in ScenarioTexts) =>
        /\ startsWith(html, ScenarioHeading)
        /\ includes(content, BodyLine) =>
             includes(html, ScenarioBold) /\ includes(html, ScenarioLinkAndTag)
        /\ IF endsWith(content, <<"\n">> \o BareNote)
           THEN /\ ~includes(html, Chars("footnotes-section"))
                /\ Count(html, Chars("<li id=\"footnote-")) = 0
                /\ Count(html, Chars("<sup>")) = 0
                /\ endsWith(html, Chars(" [* a footnote]</p>"))
           ELSE /\ Count(html, Chars("<div class=\"footnotes-section\">")) = 1
                /\ Count(html, Chars("<li id=\"footnote-")) = 1
                /\ Count(html, FootnoteEntry(1)) = 1
                /\ Count(html, FootnoteMarker(1)) = 1

ScenarioRendered == Rendered /\ content = ScenarioText /\ footnotes = <<>>

\* C4 as stated: the three-line page renders with the heading, the paragraph
\* and a trailing footnotes block of exactly one entry, numbered 1.
ScenarioRendersFootnotesBlock ==
    (Rendered /\ content = ScenarioText) =>
        /\ startsWith(html, ScenarioHeading)
        /\ includes(html, ScenarioBold)
        /\ includes(html, ScenarioLinkAndTag)
        /\ Count(html, Chars("<div class=\"footnotes-section\">")) = 1
        /\ Count(html, Chars("<li id=\"footnote-")) = 1
        /\ Count(html, FootnoteEntry(1)) = 1

\* The targets of the links of s that render makes internal links.
InternalTargets(s) ==
    LET md == Matches(linkPattern, s)
        nw == Matches(namuwikiLinkPattern, s)
    IN {Group(s, md[k], 2) : k \in {j \in 1..Len(md) : isInternal(Group(s, md[j], 2))}}
       \cup {Group(s, nw[k], 1) : k \in 1..Len(nw)}

\* C5: getLinkedPages returns every internal link target of the text, of a
\* Markdown link or of a wiki link, and each target once.
LinkedPagesComplete ==
    (op = "getLinkedPages" /\ pc = "done") =>
        /\ InternalTargets(content) \subseteq Range(result)
        /\ Cardinality(Range(result)) = Len(result)

LinkBeforeWordNotExtracted ==
    /\ op = "getLinkedPages"
    /\ pc = "done"
    /\ content = Chars("[B](C)x")
    /\ InternalTargets(content) = {Chars("C")}
    /\ result = <<>>

EmphasisTags == <<Chars("<strong>"), Chars("</strong>"), Chars("<em>"), Chars("</em>")>>

TagAt(h, i, t) == i + Len(t) - 1 <= Len(h) /\ SubSeq(h, i, i + Len(t) - 1) = t

\* The emphasis tags of h from position from on close in the order opposite
\* to the one they opened in, open being the elements open at from.
RECURSIVE WellNested(_, _, _)
WellNested(h, from, open) ==
    LET at == {i \in from..Len(h) : \E k \in 1..4 : TagAt(h, i, EmphasisTags[k])}
    IN IF at = {} THEN open = <<>>
       ELSE LET i == MinOf(at)
                k == CHOOSE j \in 1..4 : TagAt(h, i, EmphasisTags[j])
            IN IF k \in {1, 3} THEN WellNested(h, i + 1, <<k>> \o open)
               ELSE /\ open # <<>>
                    /\ open[1] = k - 1
                    /\ WellNested(h, i + 1, Tail(open))

\* The italic spans of s stand apart: no asterisk of one touches another asterisk.
SeparateSpans(s) ==
    ~includes(s, Chars("**italic")) /\ ~includes(s, Chars("italic**"))

\* C6: every **bold** span of the text renders as one <strong> element and
\* every *italic* span that stands apart as one <em> element; no asterisk of
\* a pair is left over or taken by the other pattern, and the elements are
\* properly nested.
BoldBeforeItalic ==
    (Rendered /\ content # <<>> /\ SeparateSpans(content)) =>
        /\ Count(html, Chars("<strong>bold</strong>")) = Count(content, Chars("**bold**"))
        /\ Count(html, Chars("<strong>")) = Count(content, Chars("**bold**"))
        /\ Count(html, Chars("<em>italic</em>")) = Count(content, Chars("*italic*"))
        /\ Count(html, Chars("<em>")) = Count(content, Chars("*italic*"))
        /\ Count(html, Chars("*")) = 0
        /\ WellNested(html, 1, <<>>)

BoldAndItalicRendered ==
    /\ Rendered
    /\ content = Chars("**bold** and *italic*")
    /\ html = Chars("<strong>bold</strong> and <em>italic</em>")

\* The references of s to the image name, without and with a caption.
ImageRefs(s, name) ==
    Count(s, Chars("![") \o name \o Chars("]"))
    + Count(s, Chars("![") \o name \o Chars("|"))

ImgElement(name) ==
    Chars("<img src=\"data:image/png;base64,iVBORw0KGgo=\" alt=\"") \o name
    \o Chars("\" title=\"") \o name \o Chars("\">")

\* C7: render raises nothing at an image reference; each reference to a name
\* the storage does not hold renders as the inline span that names the image
\* as not found, each reference to a stored image as an <img> for it, with the
\* caption when there is one.
ImageFoundOrMarkedMissing ==
    (op = "render") =>
        /\ pc # "raised"
        /\ pc = "done" =>
             /\ \A name \in ImageNames :
                  IF name \in images
                  THEN /\ Count(html, ImgElement(name)) = ImageRefs(content, name)
                       /\ Count(html, ImageNotFoundHtml(name)) = 0
                  ELSE /\ Count(html, ImageNotFoundHtml(name)) = ImageRefs(content, name)
                       /\ Count(html, ImgElement(name)) = 0
             /\ Count(html, Chars("<div class=\"image-caption\">cap</div>"))
                  = IF Chars("pic") \in images
                    THEN Count(content, Chars("![pic|cap]")) ELSE 0

MissingImageMarked ==
    /\ Rendered
    /\ images = {}
    /\ content = Chars("![pic|cap]![none]")
    /\ Count(html, ImageNotFoundHtml(Chars("pic"))) = 1
    /\ Count(html, ImageNotFoundHtml(Chars("none"))) = 1

ListTagLines == {Chars("<ul>"), Chars("<ol>"), Chars("</ul>"), Chars("</ol>")}

\* The lists open after line k of lines.
ListDepth(lines, k) ==
    Cardinality({j \in 1..k : lines[j] \in {Chars("<ul>"), Chars("<ol>")}})
    - Cardinality({j \in 1..k : lines[j] \in {Chars("</ul>"), Chars("</ol>")}})

\* The items of lines that start a list: an item that follows no item of its kind.
ListStarts(lines) ==
    {k \in 1..Len(lines) :
        \E marker \in {Chars("- "), Chars("1. ")} :
            /\ startsWith(lines[k], marker)
            /\ k = 1 \/ ~startsWith(lines[k - 1], marker)}

ListExample == Chars("- a\n- b\n\ntext")

\* C8: in the output every list is closed before the first line that is no
\* item of it: a line that is neither a list tag nor an item has no list open,
\* so no paragraph is inside a list; an item has a list open; and each run of
\* items of one kind is a list of its own.  '- a', '- b', a blank line and
\* 'text' render as the closed <ul> followed by <p>text</p>.
ListClosedBeforeParagraph ==
    Rendered =>
        LET lines == split(html, "\n")
        IN /\ ListDepth(lines, Len(lines)) = 0
           /\ \A k \in 1..Len(lines) :
                IF startsWith(lines[k], Chars("<li>")) THEN ListDepth(lines, k) >= 1
                ELSE lines[k] \notin ListTagLines => ListDepth(lines, k) = 0
           /\ Cardinality({k \in 1..Len(lines) : lines[k] \in {Chars("<ul>"), Chars("<ol>")}})
                = Cardinality(ListStarts(split(content, "\n")))
           /\ content = ListExample =>
                html = Chars("<ul>\n<li>a</li>\n<li>b</li>\n</ul>\n<p>text</p>")

ListThenParagraphRendered ==
    /\ Rendered
    /\ content = ListExample
    /\ includes(html, Chars("</li>\n</ul>\n<p>text</p>"))

\* The length of the run of the unit c that line begins with.
LeadingRun(line, c) ==
    LET other == {i \in 1..Len(line) : line[i] # c}
    IN IF other = {} THEN Len(line) ELSE MinOf(other) - 1

\* The white space at the end of line removed.
TrimEnd(line) ==
    LET ns == {i \in 1..Len(line) : line[i] \notin SpaceChars}
    IN IF ns = {} THEN <<>> ELSE SubSeq(line, 1, MaxOf(ns))

\* The marker counts k for which line is k '=', a text, k '=' and white space.
WikiMarkers(line) ==
    LET body == TrimEnd(line)
    IN {k \in 1..5 :
          /\ Len(body) >= 2 * k + 1
          /\ \A i \in 1..k : body[i] = "=" /\ body[Len(body) + 1 - i] = "="}

\* The id of a header text: lower case, the units outside [\w\s-] dropped,
\* each run of white space one hyphen.
Slug(text) ==
    LET kept == SelectSeq(toLowerCase(text),
                    LAMBDA c : c \in WordChars \cup SpaceChars \cup {"-"})
    IN Flatten([i \in 1..Len(kept) |->
           IF kept[i] \notin SpaceChars THEN <<kept[i]>>
           ELSE IF i > 1 /\ kept[i - 1] \in SpaceChars THEN <<>>
           ELSE <<"-">>], 1)

\* The entry of the line with index index, or none: '#' to '######', white
\* space and a text, or a text between two equal runs of '=' to '====='.
HeaderEntry(line, index) ==
    LET hashes == LeadingRun(line, "#")
        rest == SubSeq(line, hashes + 1, Len(line))
        markers == WikiMarkers(line)
        level == MaxOf(markers)
        body == TrimEnd(line)
        Entry(l, text) ==
            <<[level |-> l, text |-> text, id |-> Slug(text), position |-> index]>>
    IN IF hashes \in 1..6 /\ Len(rest) >= 2 /\ rest[1] \in SpaceChars
       THEN Entry(hashes, trim(rest))
       ELSE IF markers # {}
       THEN Entry(level, trim(SubSeq(body, level + 1, Len(body) - level)))
       ELSE <<>>

\* C9: generateTOC returns one entry for each header line of the text, of
\* either form, in source order, its position the index of the line, its
\* level the marker count and its id the header text in lower case with the
\* units outside [\w\s-] dropped and each white-space run made one hyphen.
TocListsHeaderLines ==
    (op = "generateTOC" /\ pc = "done") =>
        LET lines == split(content, "\n")
        IN /\ result = Flatten([k \in 1..Len(lines) |-> HeaderEntry(lines[k], k - 1)], 1)
           /\ \A k \in 1..Len(result) : result[k].level \in 1..6
           /\ \A k \in 1..(Len(result) - 1) : result[k].position < result[k + 1].position

TwoHeadersListed ==
    /\ op = "generateTOC"
    /\ pc = "done"
    /\ content = Chars("# Hello World\n== Sub! ==")
    /\ Len(result) = 2
    /\ result[1].id = Chars("hello-world")
    /\ result[2] = [level |-> 2, text |-> Chars("Sub!"), id |-> Chars("sub"), position |-> 1]

\* C10: no call of render, getLinkedPages, generateTOC or highlightSearchTerm
\* on a string raises: not at an image the storage does not hold, not at a
\* link, not at a search term of metacharacters.
NoOperationRaises == pc # "raised"

MetacharacterTermHighlighted ==
    /\ op = "highlightSearchTerm"
    /\ pc = "done"
    /\ term = Chars("(")
    /\ includes(result, Chars("<mark>(</mark>"))

\* ------------------------------------------------- highlightSearchTerm

\* Texts with letters of both cases and metacharacters, and the terms sought.
HighlightFrags == {Chars("a"), Chars("A."), Chars("b"), Chars("(a+"), Chars(" ")}

HighlightTerms == {<<>>, Chars("a"), Chars("a."), Chars("(a+"), Chars("aa")}

InitHighlight == InitWith(Texts(HighlightFrags, MaxFrags), HighlightTerms, NoImages)

SpecHighlight == InitHighlight /\ [][Next]_vars

\* The text s from unit i on with each occurrence of t, letters of either
\* case, between <mark> and </mark>: the occurrences are taken from left to
\* right, the search resuming after each.
RECURSIVE MarkedFrom(_, _, _)
MarkedFrom(s, t, i) ==
    IF i > Len(s) THEN <<>>
    ELSE IF /\ i + Len(t) - 1 <= Len(s)
            /\ toLowerCase(SubSeq(s, i, i + Len(t) - 1)) = toLowerCase(t)
    THEN Chars("<mark>") \o SubSeq(s, i, i + Len(t) - 1) \o Chars("</mark>")
         \o MarkedFrom(s, t, i + Len(t))
    ELSE <<s[i]>> \o MarkedFrom(s, t, i + 1)

\* C11: highlightSearchTerm returns the text with every occurrence of the
\* term, compared unit by unit without regard to case, wrapped in
\* <mark>...</mark> and nothing else changed; a metacharacter of the term
\* matches itself alone, and an empty term returns the text unchanged.
HighlightMarksLiteralOccurrences ==
    op = "highlightSearchTerm" =>
        /\ pc = "done"
        /\ result = IF term = <<>> THEN content ELSE MarkedFrom(content, term, 1)

MetacharactersAndCaseHighlighted ==
    /\ op = "highlightSearchTerm"
    /\ pc = "done"
    /\ term = Chars("a.")
    /\ content = Chars("A.ab")
    /\ result = Chars("<mark>A.</mark>ab")

\* ------------------------------------------------------ escaped input

\* Text that is HTML-escaped already: entities in plain text, in bold text,
\* in a fenced code block and in an image reference.
EntityFrags ==
    {Chars("&amp;"), Chars("&lt;b&gt;"), <<Backtick, Backtick, Backtick>> \o Chars("&gt;")
     \o <<Backtick, Backtick, Backtick>>, Chars("![&amp;]"), Chars("a"), Chars("\n"),
     Chars("**")}

InitEntities == InitWith(Texts(EntityFrags, MaxFrags), SearchTerms, NoImages)

SpecEntities == InitEntities /\ [][Next]_vars

\* The entities &amp;, &lt; and &gt; of a text.
Entities(s) == Count(s, Chars("&amp;")) + Count(s, Chars("&lt;")) + Count(s, Chars("&gt;"))

\* The entities of a text that are escaped a second time.
DoubleEscapes(s) ==
    Count(s, Chars("&amp;amp;")) + Count(s, Chars("&amp;lt;")) + Count(s, Chars("&amp;gt;"))

RECURSIVE SumOf(_, _)
SumOf(f, k) == IF k > Len(f) THEN 0 ELSE f[k] + SumOf(f, k + 1)

\* The entities of s inside the matches of regex.
EntitiesWithin(s, regex) ==
    SumOf([k \in 1..Len(Matches(regex, s)) |-> Entities(Group(s, Matches(regex, s)[k], 1))],
          1)

\* C12 (amended): an entity of the input is escaped a second time exactly
\* when it stands in a fenced code block or in an image reference; everywhere
\* else it appears in the output as written.
EscapedAgainOnlyInCodeAndImages ==
    Rendered =>
        /\ DoubleEscapes(html) =
               EntitiesWithin(content, codeBlockRegex) + EntitiesWithin(content, imageRegex)
        /\ Entities(html) = Entities(content)

EntitiesInsideAndOutsideCode ==
    /\ Rendered
    /\ content = Chars("&amp;") \o <<Backtick, Backtick, Backtick>> \o Chars("&gt;")
                 \o <<Backtick, Backtick, Backtick>>
    /\ html = Chars("<p>&amp;<pre><code>&amp;gt;</code></pre></p>")

\* C12 as stated: no entity of the input is escaped a second time, wherever
\* in the text it occurs.
NeverEscapedAgain == Rendered => DoubleEscapes(html) = 0

\* ------------------------------------------------------ attribute text

\* Link targets, an image name and a tag with units that mean something
\* inside an attribute.
AttributeFrags ==
    {Chars("[[a<b]]"), Chars("[x](c\"d)"), Chars("![p&q]"), Chars("#t"), Chars("a"),
     Chars(" ")}

InitAttributes == InitWith(Texts(AttributeFrags, MaxRefs), SearchTerms, {{}, {Chars("p&q")}})

SpecAttributes == InitAttributes /\ [][Next]_vars

\* The text of h from unit i up to the next ">.
RECURSIVE ValueAt(_, _)
ValueAt(h, i) ==
    IF i > Len(h) \/ TagAt(h, i, Chars("\">")) THEN <<>>
    ELSE <<h[i]>> \o ValueAt(h, i + 1)

\* The values of the data-page attributes of h, each written last in its tag.
DataPageValues(h) ==
    {ValueAt(h, i + Len(Chars("data-page=\""))) : i \in Occurrences(h, Chars("data-page=\""))}

\* C13: the target of a link is HTML-escaped where render writes it into
\* data-page, and no data-page value holds a unit that ends the attribute or
\* opens a tag.
AttributeTextEscaped ==
    Rendered =>
        /\ \A t \in InternalTargets(content) :
               includes(html, Chars("data-page=\"") \o escapeHtml(t) \o Chars("\">"))
        /\ \A v \in DataPageValues(html) : \A k \in 1..Len(v) : v[k] \notin {"\"", "<"}

RawTargetInDataPage ==
    /\ Rendered
    /\ content = Chars("[[a<b]]")
    /\ includes(html, Chars("data-page=\"a<b\">a<b</a>"))

\* ------------------------------------------------- one renderer, many calls

\* The text of the first call: a link of each form and a footnote.
FirstText == Chars("[[A]] [B](C) b[* x]")

\* The texts of the calls that follow.
CallFrags == {Chars("[B](C)"), Chars("[[A]]"), Chars("b[* x]"), Chars("a"), Chars(" ")}

CallTexts == Texts(CallFrags, MaxRefs)

InitCalls == InitWith({FirstText}, SearchTerms, NoImages)

\* Any operation, or the return of one to a caller that has another text.
NextCalls == Next \/ ReturnToCaller(CallTexts)

SpecCalls == InitCalls /\ [][NextCalls]_vars

\* C14: whatever calls came before on the same renderer, no pattern keeps a
\* match position between calls, render returns what a fresh renderer returns
\* with the footnotes numbered from 1, and so does getLinkedPages.
NoStateBetweenCalls ==
    /\ pc \in {"idle", "done", "raised"} => lastIndex = FreshIndex
    /\ Rendered =>
           /\ html = render(content, images)
           /\ footnotes = FootnotesOf(content)
           /\ \A k \in 1..Len(footnotes) : footnotes[k].number = k
    /\ (op = "getLinkedPages" /\ pc = "done") => result = getLinkedPages(content)

SecondCallNumbersFromOne ==
    /\ Rendered
    /\ content = Chars("[[A]]b[* x]")
    /\ content # FirstText
    /\ lastIndex = FreshIndex
    /\ Len(footnotes) = 1
    /\ Count(html, FootnoteEntry(1)) = 1
    /\ includes(html, Chars("data-page=\"A\""))

\* ------------------------------------------------------ lists that follow lists

\* The list tags of lines from line k on close the list that was opened last,
\* open being the lists open at line k, the innermost first.
RECURSIVE ListsNested(_, _, _)
ListsNested(lines, k, open) ==
    IF k > Len(lines) THEN open = <<>>
    ELSE IF lines[k] = Chars("<ul>") THEN ListsNested(lines, k + 1, <<"ul">> \o open)
    ELSE IF lines[k] = Chars("<ol>") THEN ListsNested(lines, k + 1, <<"ol">> \o open)
    ELSE IF lines[k] = Chars("</ul>")
    THEN open # <<>> /\ Head(open) = "ul" /\ ListsNested(lines, k + 1, Tail(open))
    ELSE IF lines[k] = Chars("</ol>")
    THEN open # <<>> /\ Head(open) = "ol" /\ ListsNested(lines, k + 1, Tail(open))
    ELSE ListsNested(lines, k + 1, open)

\* C15: the <ul> and <ol> tags of the output are properly nested: where a
\* list of one kind follows a list of the other, the open list is closed
\* before the new one is opened.
ListTagsNested == Rendered => ListsNested(split(html, "\n"), 1, <<>>)

OrderedListClosedInsideUnordered ==
    /\ Rendered
    /\ content = Chars("1. c\n- a")
    /\ html = Chars("<ol>\n<li>c</li>\n<ul>\n</ol>\n<li>a</li>\n</ul>")

\* ------------------------------------------------------ targets of links

\* Markdown links to an anchor, to a URL and to a page.
TargetFrags ==
    {Chars("[x](#top)"), Chars("[y](#)"), Chars("[E](http://e)"), Chars("[B](C)"),
     Chars("a"), Chars(" ")}

InitTargets == InitWith(Texts(TargetFrags, MaxRefs), SearchTerms, NoImages)

SpecTargets == InitTargets /\ [][Next]_vars

\* The link render is to emit for [text](url).
ExpectedLink(text, url) ==
    IF includes(url, Chars("://")) \/ (url # <<>> /\ url[1] = "#")
    THEN Chars("<a href=\"") \o url \o Chars("\" target=\"_blank\" rel=\"noopener noreferrer\">")
         \o text \o Chars("</a>")
    ELSE Chars("<a href=\"/") \o pageNameToPunycode(url)
         \o Chars("\" class=\"internal-link\" data-page=\"") \o url \o Chars("\">")
         \o text \o Chars("</a>")

\* C16: each Markdown link of the text is in the output as an external or
\* anchor link when its target holds '://' or begins with '#', and as an
\* internal link with the target in data-page and the encoded target in href
\* otherwise.
LinksEmittedByTarget ==
    Rendered =>
        \A k \in 1..Len(Matches(linkPattern, content)) :
            includes(html, ExpectedLink(Group(content, Matches(linkPattern, content)[k], 1),
                                        Group(content, Matches(linkPattern, content)[k], 2)))

AnchorTargetTaggedFirst ==
    /\ Rendered
    /\ content = Chars("[x](#top)")
    /\ ~includes(html, Chars("target=\"_blank\""))
    /\ includes(html, Chars("class=\"internal-link\" data-page=\"<span class=\"wiki-tag\" data-tag=\"top\""))
    /\ includes(html, Chars("\">x</a>\">#top</span>)"))

\* ------------------------------------------------------ markup inside code

Fence == <<Backtick, Backtick, Backtick>>

\* Fenced code that holds plain text, a unit to escape, bold markup and a tag.
CodeFrags ==
    {Fence \o Chars("a") \o Fence, Fence \o Chars(" a<b ") \o Fence,
     Fence \o Chars("**x**") \o Fence, Fence \o Chars("#t") \o Fence, Chars("a"),
     Chars("\n")}

InitCode == InitWith(Texts(CodeFrags, MaxRefs), SearchTerms, NoImages)

SpecCode == InitCode /\ [][Next]_vars

\* The fenced blocks of s: the text between a fence and the next fence.
RECURSIVE FencedFrom(_, _)
FencedFrom(s, i) ==
    LET opens == {p \in i..(Len(s) - 2) : TagAt(s, p, Fence)}
    IN IF opens = {} THEN <<>>
       ELSE LET closes == {q \in (MinOf(opens) + 3)..(Len(s) - 2) : TagAt(s, q, Fence)}
            IN IF closes = {} THEN <<>>
               ELSE <<SubSeq(s, MinOf(opens) + 3, MinOf(closes) - 1)>>
                    \o FencedFrom(s, MinOf(closes) + 3)

\* C17: each fenced code block of the text is in the output as its content,
\* trimmed and HTML-escaped, between <pre><code> and </code></pre>, no markup
\* inside it interpreted.
CodeBlockContentKept ==
    Rendered =>
        \A k \in 1..Len(FencedFrom(content, 1)) :
            includes(html, Chars("<pre><code>") \o escapeHtml(trim(FencedFrom(content, 1)[k]))
                           \o Chars("</code></pre>"))

BoldInsideCodeRendered ==
    /\ Rendered
    /\ content = Fence \o Chars("**x**") \o Fence
    /\ html = Chars("<pre><code><strong>x</strong></code></pre>")

\* ------------------------------------------------------ markup in a header

\* Wiki headers, one with wiki bold markup in its text: the line, the level
\* and the text of each.
WikiHeaders ==
    {[line |-> Chars("= a--b--c ="), level |-> Chars("1"), text |-> Chars("a--b--c")],
     [line |-> Chars("== T =="), level |-> Chars("2"), text |-> Chars("T")],
     [line |-> Chars("= Hello World ="), level |-> Chars("1"), text |-> Chars("Hello World")]}

WikiHeaderLines == {h.line : h \in WikiHeaders} \cup {Chars("text"), Chars("--x--")}

InitWikiHeaders == InitWith(LinesOf(WikiHeaderLines, MaxHeaderLines), SearchTerms, NoImages)

SpecWikiHeaders == InitWikiHeaders /\ [][Next]_vars

\* C18: the heading the wiki-header pass emits for a header line is in the
\* final output with the id it was given, generateId of the header text: no
\* later pass has rewritten the tag.
HeadingIdKept ==
    Rendered =>
        \A h \in WikiHeaders :
            h.line \in Range(split(content, "\n")) =>
                includes(html, Chars("<h") \o h.level \o Chars(" id=\"")
                               \o generateId(h.text) \o Chars("\">"))

WikiBoldInsideHeadingId ==
    /\ Rendered
    /\ content = Chars("= a--b--c =")
    /\ generateId(Chars("a--b--c")) = Chars("a--b--c")
    /\ html = Chars("<h1 id=\"a<strong>b</strong>c\">a<strong>b</strong>c</h1>")

\* ------------------------------------------------------ the table of contents

TocMarker == <<"[", "U+BAA9", "U+CC28", "]">>

\* The marker, headers of both forms and a text line.
TocLines == {TocMarker, Chars("# M"), Chars("## Sub"), Chars("= T ="), Chars("text")}

InitToc == InitWith(LinesOf(TocLines, MaxHeaderLines), SearchTerms, NoImages)

SpecToc == InitToc /\ [][Next]_vars

\* C19: each marker of the text is in the output as the block of the entries
\* generateTOC finds in the text, headers of both forms, each entry a link to
\* '#' and the id of its header; a text with no header has no block.
TocBlockListsAllHeaders ==
    Rendered =>
        /\ ~includes(html, TocMarker)
        /\ IF generateTOC(content) = <<>>
           THEN ~includes(html, Chars("<div class=\"wiki-toc\">"))
           ELSE Count(html, TocHtml(generateTOC(content))) = Count(content, TocMarker)

WikiHeaderMissingFromToc ==
    /\ Rendered
    /\ content = TocMarker \o Chars("\n= T =")
    /\ Len(generateTOC(content)) = 1
    /\ includes(html, Chars("<h1 id=\"t\">T</h1>"))
    /\ ~includes(html, TocMarker)
    /\ ~includes(html, Chars("wiki-toc"))

\* ------------------------------------------------------ paragraphs

\* Plain lines, blank lines and block lines of each kind.
ParagraphLines ==
    {Chars("a"), Chars(" b&"), <<>>, Chars("  "), Chars("<hr>"), Chars("* c"), Chars("# h"),
     Chars(" - i"), Chars("> q"), Chars("1. n"), Fence}

InitParagraphs == InitWith(LinesOf(ParagraphLines, MaxParagraphLines), SearchTerms, NoImages)

SpecParagraphs == InitParagraphs /\ [][Next]_vars

\* A line that starts, after its leading white space, with a number, '.' and
\* a space.
NumberedLine(t) ==
    \E n \in 1..(Len(t) - 2) :
        /\ \A i \in 1..n : t[i] \in Digits
        /\ t[n + 1] = "."
        /\ t[n + 2] = " "

\* A block line: one that starts with a tag, '#', a list marker, '> ' or a
\* code fence.
BlockLine(line) ==
    LET t == trim(line)
    IN t # <<>> /\ \/ t[1] \in {"<", "#"}
                   \/ \E marker \in {Chars("- "), Chars("* "), Chars("> "), Fence} :
                          startsWith(t, marker)
                   \/ NumberedLine(t)

PlainLine(line) == trim(line) # <<>> /\ ~BlockLine(line)

\* The paragraph of the run of plain lines that starts at line k.
RunParagraph(lines, k) ==
    LET end == MinOf({j \in k..Len(lines) : j = Len(lines) \/ ~PlainLine(lines[j + 1])})
    IN Chars("<p>") \o join([i \in 1..(end - k + 1) |-> trim(lines[k + i - 1])], <<" ">>)
       \o Chars("</p>")

\* The elements of out at the indices kept, from index k on.
RECURSIVE KeptFrom(_, _, _)
KeptFrom(out, kept, k) ==
    IF k > Len(out) THEN <<>>
    ELSE (IF k \in kept THEN <<out[k]>> ELSE <<>>) \o KeptFrom(out, kept, k + 1)

\* What the claim has renderParagraphs return for s: a paragraph where a run
\* of plain lines starts, each block line as it is, nothing for a blank line
\* and for the plain lines that continue a run.
Paragraphs(s) ==
    LET lines == split(s, "\n")
        kept == {k \in 1..Len(lines) :
                    \/ BlockLine(lines[k])
                    \/ PlainLine(lines[k]) /\ (k = 1 \/ ~PlainLine(lines[k - 1]))}
        out == [k \in 1..Len(lines) |->
                   IF BlockLine(lines[k]) THEN lines[k] ELSE RunParagraph(lines, k)]
    IN join(KeptFrom(out, kept, 1), <<"\n">>)

\* The text the passes 1..k of render make of html.
RECURSIVE AfterPasses(_, _, _)
AfterPasses(k, text, stored) ==
    IF k = 0 THEN text ELSE ApplyPass(PassOrder[k], AfterPasses(k - 1, text, stored), stored)

\* C20: renderParagraphs makes one <p> of each maximal run of plain lines, the
\* trimmed lines joined by single spaces, passes each block line through as
\* it is and drops the blank lines, the order kept: of the text of the page,
\* and of the text the last pass of render is given (an empty page has no
\* passes applied).
ParagraphsOfPlainRuns ==
    /\ pc = "idle" => renderParagraphs(content) = Paragraphs(content)
    /\ (Rendered /\ ran # <<>>) =>
           html = Paragraphs(AfterPasses(Len(PassOrder) - 1, content, images))

TwoLinesJoinedBeforeBlock ==
    /\ Rendered
    /\ content = Chars("a\n b&\n<hr>")
    /\ AfterPasses(Len(PassOrder) - 1, content, images) = content
    /\ html = Chars("<p>a b&</p>\n<hr>")

\* ------------------------------------------------------ video embeds

\* The two shorthands for a video, each with the text between its brackets
\* and its video id.
Shorthands ==
    {[token |-> Chars("[[htp://yt.abc]]"), inner |-> Chars("htp://yt.abc"), id |-> Chars("abc")],
     [token |-> Chars("[[htp://x_1.yt]]"), inner |-> Chars("htp://x_1.yt"), id |-> Chars("x_1")]}

EmbedFrags == {s.token : s \in Shorthands} \cup {Chars("[[A]]"), Chars("a"), Chars(" ")}

InitEmbeds == InitWith(Texts(EmbedFrags, MaxRefs), SearchTerms, NoImages)

SpecEmbeds == InitEmbeds /\ [][Next]_vars

\* The address of the player of a video.
EmbedSrc(id) ==
    Chars("src=\"https://www.youtube-nocookie.com/embed/") \o id \o Chars("?rel=0")

\* The attribute an internal link has for the page target.
DataPage(target) == Chars("data-page=\"") \o target \o Chars("\"")

\* C21: a shorthand of either form is in the output as the player of its
\* video, and not as an internal link to the text between its brackets.
BothShorthandsEmbedded ==
    Rendered =>
        \A s \in Shorthands :
            includes(content, s.token) =>
                /\ includes(html, EmbedSrc(s.id))
                /\ ~includes(html, DataPage(s.inner))

ReversedShorthandLinked ==
    /\ Rendered
    /\ content = Chars("[[htp://x_1.yt]]")
    /\ ~includes(html, Chars("youtube-embed"))
    /\ includes(html, Chars("class=\"internal-link namuwiki-link\" data-page=\"htp://x_1.yt\">"))

\* ------------------------------------------------------ the id of a video

\* What stands after 'htp://yt.' in a token: ids of allowed units, one of
\* them with two pairs of hyphens, no id, and ids with other units.
VideoIds == {Chars("abc"), Chars("a--b--c"), <<>>, Chars("a<b"), Chars("a b")}

EmbedToken(x) == Chars("[[htp://yt.") \o x \o Chars("]]")

\* [A-Za-z0-9_-]
AllowedInId == Range(LowerSeq) \cup Range(UpperSeq) \cup Digits \cup {"_", "-"}

IdFrags == {EmbedToken(x) : x \in VideoIds} \cup {Chars("a")}

InitIds == InitWith(Texts(IdFrags, MaxRefs), SearchTerms, NoImages)

SpecIds == InitIds /\ [][Next]_vars

\* C22: a token [[htp://yt.X]] is in the output as the player of X when X is
\* a non-empty run of allowed units, and as the token itself otherwise; it is
\* never an internal link.
TokenEmbeddedOrKept ==
    Rendered =>
        \A x \in VideoIds :
            includes(content, EmbedToken(x)) =>
                /\ IF x # <<>> /\ Range(x) \subseteq AllowedInId
                   THEN includes(html, EmbedSrc(x)) /\ ~includes(html, EmbedToken(x))
                   ELSE includes(html, EmbedToken(x))
                /\ ~includes(html, DataPage(Chars("htp://yt.") \o x))

HyphenPairsInIdMadeBold ==
    /\ Rendered
    /\ content = EmbedToken(Chars("a--b--c"))
    /\ html = Chars("<p>[[htp://yt.a<strong>b</strong>c]]</p>")

\* ------------------------------------------------------ tokens without a closer

\* The openers of bold, italic, wiki bold, strikethrough, inline code, a wiki
\* link and a Markdown link, and plain text.
OpenerFrags ==
    {Chars("**"), Chars("*"), Chars("--"), Chars("~~"), <<Backtick>>, Chars("[["),
     Chars("[t]("), Chars("a"), Chars(" b")}

InitOpeners == InitWith(Texts(OpenerFrags, MaxFrags), SearchTerms, NoImages)

SpecOpeners == InitOpeners /\ [][Next]_vars

\* The units c of s stand side by side, at most max of them.
OneRun(s, c, max) ==
    LET at == {i \in 1..Len(s) : s[i] = c}
    IN at = {} \/ (MaxOf(at) - MinOf(at) + 1 = Cardinality(at) /\ Cardinality(at) <= max)

\* No token of s has a closer: the asterisks, the hyphens, the tildes and the
\* backticks of s each stand in one run, too short to be an opener and its
\* closer or a rule.
Unclosed(s) ==
    /\ OneRun(s, "*", 3)
    /\ OneRun(s, "-", 2)
    /\ OneRun(s, "~", 3)
    /\ OneRun(s, Backtick, 2)
    /\ ~includes(s, Chars("]]"))
    /\ ~includes(s, Chars(")"))

ElementTags == {Chars("<strong>"), Chars("<em>"), Chars("<del>"), Chars("<code>"), Chars("<a ")}

\* C23: a text whose tokens have no closer is in the output as it is written,
\* as a paragraph or, where it starts with '* ', as a line of its own, and
\* the output holds no emphasis, code or link element.
UnclosedTokensLiteral ==
    (Rendered /\ content # <<>> /\ Unclosed(content)) =>
        /\ \A tag \in ElementTags : ~includes(html, tag)
        /\ html \in {Chars("<p>") \o trim(content) \o Chars("</p>"), content}

UnclosedBoldLiteral ==
    /\ Rendered
    /\ Unclosed(content)
    /\ content = Chars("**a[[")
    /\ html = Chars("<p>**a[[</p>")

\* ------------------------------------------------------ the footnotes block

\* Footnotes with white space around their content, a bracket with no text
\* run before it, and plain text.
NoteFrags ==
    {Chars("b[* x ]"), Chars("c[*y]"), Chars(" [*z]"), Chars("a"), Chars(" "), Chars("\n")}

InitNotes == InitWith(Texts(NoteFrags, MaxFrags), SearchTerms, NoImages)

SpecNotes == InitNotes /\ [][Next]_vars

FootnotesDiv == Chars("<div class=\"footnotes-section\">")

\* The content of the footnote of match m of s in its entry.
NoteContent(s, m) ==
    Chars("<span class=\"footnote-content\">") \o trim(Group(s, m, 2)) \o Chars("</span>")

\* The text of h from entry k of the footnote list up to entry k + 1.
EntryText(h, k) ==
    SubSeq(h, At(h, FootnoteEntry(k)),
           IF includes(h, FootnoteEntry(k + 1)) THEN At(h, FootnoteEntry(k + 1)) - 1
           ELSE Len(h))

\* The footnote list of h for the footnotes ms matched in s: after the
\* markers of the text, at the end of h, one entry a footnote, in their order.
NotesListed(h, s, ms) ==
    /\ Count(h, FootnotesDiv) = 1
    /\ SubSeq(h, Len(h) - 10, Len(h)) = Chars("</ol></div>")
    /\ Count(h, Chars("<li id=\"footnote-")) = Len(ms)
    /\ \A k \in 1..Len(ms) :
        /\ At(h, FootnoteMarker(k)) < At(h, FootnotesDiv)
        /\ Count(h, FootnoteEntry(k)) = 1
        /\ At(h, FootnotesDiv) < At(h, FootnoteEntry(k))
        /\ includes(EntryText(h, k), NoteContent(s, ms[k]))
        /\ Count(EntryText(h, k), Chars("footnote-content")) = 1

\* C24: the output has a footnotes block exactly when a footnote was matched;
\* the block ends the output, after every marker of the text, and has one
\* entry a matched footnote, in their order, each with the trimmed content
\* of its footnote.
FootnotesBlockIffMatched ==
    Rendered =>
        IF Matches(footnoteRegex, content) = <<>>
        THEN ~includes(html, Chars("footnotes-section")) /\ ~includes(html, Chars("<li id=\"footnote-"))
        ELSE NotesListed(html, content, Matches(footnoteRegex, content))

TwoNotesListedTrimmed ==
    /\ Rendered
    /\ content = Chars("b[* x ]c[*y] [*z]")
    /\ Len(Matches(footnoteRegex, content)) = 2
    /\ includes(EntryText(html, 1), Chars("<span class=\"footnote-content\">x</span>"))
    /\ includes(EntryText(html, 2), Chars("<span class=\"footnote-content\">y</span>"))
    /\ includes(html, Chars(" [*z]"))

\* ------------------------------------------------------ the extent of a tag

\* A tag, words in Latin and Hangul letters, white space and a full stop.
TagFrags == {Chars("#a"), Chars("b"), <<"U+AC00">>, Chars(" "), Chars("\n"), Chars(".")}

InitTags == InitWith(Texts(TagFrags, MaxFrags), SearchTerms, NoImages)

SpecTags == InitTags /\ [][Next]_vars

\* The tags renderTags captures in the text render gives it.
CapturedTags(s) ==
    {Group(s, Matches(tagRegex, s)[k], 1) : k \in 1..Len(Matches(tagRegex, s))}

\* Words with single spaces between them: no line break, no two units of
\* white space side by side, a word unit at either end.
SingleSpaced(t) ==
    /\ t # <<>>
    /\ t[1] \notin SpaceChars
    /\ t[Len(t)] \notin SpaceChars
    /\ \A i \in 1..Len(t) : t[i] \notin LineTerminators
    /\ \A i \in 1..(Len(t) - 1) : ~(t[i] \in SpaceChars /\ t[i + 1] \in SpaceChars)

\* C25: every tag renderTags captures is a run of words with single spaces
\* between them, on one line.
TagsSingleSpaced ==
    "renderTags" \in Range(ran) =>
        \A t \in CapturedTags(AfterPasses(2, content, images)) : SingleSpaced(t)

TagOverLineBreak ==
    /\ Rendered
    /\ content = Chars("#a\nb")
    /\ CapturedTags(content) = {Chars("a\nb")}
    /\ html = Chars("<span class=\"wiki-tag\" data-tag=\"a b\" onclick=\"app.showTaggedPages('a b')\">#a b</span>")

\* ------------------------------------------------------ the ids of headings

\* Header lines of both forms, one with a space at its end, and a text line.
IdLines == {Chars("# A"), Chars("# A b "), Chars("## Sub"), Chars("= A b ="), Chars("text")}

InitHeadingIds == InitWith(LinesOf(IdLines, MaxHeaderLines), SearchTerms, NoImages)

SpecHeadingIds == InitHeadingIds /\ [][Next]_vars

\* The opening tag of a heading of a level with an id.
HeadingOpen(level, id) ==
    Chars("<h") \o ToDigits(level) \o Chars(" id=\"") \o id \o Chars("\">")

\* C26: for every entry of generateTOC of the text, the output of render has
\* a heading of the level of the entry whose id is the id of the entry.
TocIdsAreHeadingIds ==
    Rendered =>
        \A k \in 1..Len(generateTOC(content)) :
            includes(html, HeadingOpen(generateTOC(content)[k].level, generateTOC(content)[k].id))

TrailingSpaceInHeadingId ==
    /\ Rendered
    /\ content = Chars("# A b ")
    /\ generateTOC(content)[1].id = Chars("a-b")
    /\ html = Chars("<h1 id=\"a-b-\">A b</h1>")

\* ------------------------------------------------------ ids of any script

Hangul == <<"U+D55C", "U+AE00">>

\* Headers in Latin letters, in Hangul, in both, and one of punctuation.
ScriptLines ==
    {Chars("# A"), Chars("# ") \o Hangul, Chars("= ") \o Hangul \o Chars(" ="),
     Chars("## a ") \o Hangul, Chars("# !"), Chars("text")}

InitScripts == InitWith(LinesOf(ScriptLines, MaxHeaderLines), SearchTerms, NoImages)

SpecScripts == InitScripts /\ [][Next]_vars

\* C27: every entry of generateTOC whose header text holds a unit that is no
\* white space has an id that is not empty.
HeaderIdsNotEmpty ==
    (op = "generateTOC" /\ pc = "done") =>
        \A k \in 1..Len(result) :
            (\E i \in 1..Len(result[k].text) : result[k].text[i] \notin SpaceChars) =>
                result[k].id # <<>>

HangulHeaderWithoutId ==
    /\ op = "generateTOC"
    /\ pc = "done"
    /\ content = Chars("# ") \o Hangul
    /\ Len(result) = 1
    /\ result[1].text = Hangul
    /\ result[1].id = <<>>

\* ------------------------------------------------------ links reported and rendered

\* Links of both forms, a video, a category and a Markdown link before a word.
ReportFrags ==
    {Chars("[[A]]"), Chars("[B](C)"), Chars("[[htp://yt.abc]]"),
     Chars("[[") \o CategoryPrefix \o Chars("X]]"), Chars("[D](E)x"), Chars(" ")}

InitReports == InitWith(Texts(ReportFrags, MaxRefs), SearchTerms, NoImages)

SpecReports == InitReports /\ [][Next]_vars

\* C28: the pages getLinkedPages reports for a text are the data-page targets
\* of the internal links in the output of render for the text.
ReportedIffRendered == Rendered => Range(getLinkedPages(content)) = DataPageValues(html)

VideoReportedAsLinkedPage ==
    /\ Rendered
    /\ content = Chars("[[htp://yt.abc]][[A]]")
    /\ getLinkedPages(content) = <<Chars("htp://yt.abc"), Chars("A")>>
    /\ DataPageValues(html) = {Chars("A")}

\* ------------------------------------------------------ the block and the paragraph

\* The paragraphs of h open before position i.
OpenParagraphs(h, i) ==
    Count(SubSeq(h, 1, i - 1), Chars("<p>")) - Count(SubSeq(h, 1, i - 1), Chars("</p>"))

\* C29: where the output has a footnotes block, no paragraph is open at the
\* tag that opens the block.
FootnotesBlockOutsideParagraph ==
    (Rendered /\ includes(html, FootnotesDiv)) => OpenParagraphs(html, At(html, FootnotesDiv)) = 0

FootnotesBlockInsideParagraph ==
    /\ Rendered
    /\ content = Chars("ab[* x ]")
    /\ includes(html, Chars("</span></sup><div class=\"footnotes-section\">"))
    /\ startsWith(html, Chars("<p>ab<sup>"))
    /\ includes(html, Chars("<li id=\"footnote-1\" class=\"footnote\"></p>"))

\* ------------------------------------------------------ the flags of renderLists

\* After each line of lines from line k on at most one of the two flags of
\* renderLists is set, st being the turn of the loop at line k - 1.
RECURSIVE FlagsExclusiveFrom(_, _, _)
FlagsExclusiveFrom(lines, k, st) ==
    /\ ~(st.inUnorderedList /\ st.inOrderedList)
    /\ k <= Len(lines) =>
           FlagsExclusiveFrom(lines, k + 1,
               ListStep(lines[k], st.inUnorderedList, st.inOrderedList))

\* The lines of a text that are the line l.
LinesEqual(lines, l) == Cardinality({k \in 1..Len(lines) : lines[k] = l})

\* The list tags of the lines out are as many closing as opening, of either
\* kind, and every item stands where a list is open.
ListTagsCounted(out) ==
    /\ LinesEqual(out, Chars("<ul>")) = LinesEqual(out, Chars("</ul>"))
    /\ LinesEqual(out, Chars("<ol>")) = LinesEqual(out, Chars("</ol>"))
    /\ \A k \in 1..Len(out) : startsWith(out[k], Chars("<li>")) => ListDepth(out, k) >= 1

\* The text render gives to renderLists.
ListsInput == AfterPasses(Len(PassOrder) - 2, content, images)

\* C30: when renderLists has returned, at most one of its two flags was set
\* after each line of its input, its output has as many </ul> as <ul> and as
\* many </ol> as <ol>, none open at the end, and every <li> of the output
\* stands where a list is open.
ListFlagsExclusive ==
    (op = "render" /\ pc = "renderParagraphs") =>
        /\ PassOrder[Len(PassOrder) - 1] = "renderLists"
        /\ FlagsExclusiveFrom(split(ListsInput, "\n"), 1,
               [out |-> <<>>, inUnorderedList |-> FALSE, inOrderedList |-> FALSE])
        /\ ListTagsCounted(split(html, "\n"))

ListsOfBothKindsClosed ==
    /\ op = "render"
    /\ pc = "renderParagraphs"
    /\ content = Chars("- a\n1. c\ntext")
    /\ html = Chars("<ul>\n<li>a</li>\n<ol>\n</ul>\n<li>c</li>\n</ol>\ntext")
=============================================================================
